---- MODULE Spec2Model ----
(***************************************************************************)
(* Model of scenario.runtime: the ConsistencyChecker, the virtual charm    *)
(* root, the event environment, the storage bridge and Runtime.exec.       *)
(*                                                                         *)
(* Strings of the program are sequences of one-character strings, so that  *)
(* startswith, endswith, slicing and the regular expressions are computed  *)
(* character by character.  An optional value is <<>> (None) or <<v>>.     *)
(***************************************************************************)
EXTENDS Integers, Sequences, FiniteSets, TLC

\* ------------------------------------------------------------ bounds
\* Longest deferred / stored_state list drawn for the storage round trip.
MaxDeferred == 2
MaxStored == 2
\* Number of exec calls made in one process.
MaxExec == 1
\* Number of consecutive exec calls made in one process.
MaxDispatch == 2
\* Sessions begun for one charm type, observers registered and firings emitted in
\* each session.
MaxSessions == 2
MaxObservers == 1
MaxEmits == 1
\* Number of trigger calls made in one process.
MaxTrigger == 1
\* relation events handled by one PostgreSQLClient
MaxPgEvents == 3

\* ------------------------------------------------------------ strings
None == <<>>
Some(v) == <<v>>
IsNone(o) == o = <<>>
Val(o) == o[1]

Digits == {"0", "1", "2", "3", "4", "5", "6", "7", "8", "9"}
Letters ==
    {"a", "b", "c", "d", "e", "f", "g", "h", "i", "j", "k", "l", "m",
     "n", "o", "p", "q", "r", "s", "t", "u", "v", "w", "x", "y", "z",
     "A", "B", "C", "D", "E", "F", "G", "H", "I", "J", "K", "L", "M",
     "N", "O", "P", "Q", "R", "S", "T", "U", "V", "W", "X", "Y", "Z"}

StartsWith(s, p) == Len(p) <= Len(s) /\ SubSeq(s, 1, Len(p)) = p
EndsWith(s, p) == Len(p) <= Len(s) /\ SubSeq(s, Len(s) - Len(p) + 1, Len(s)) = p
\* s[:-n]
DropLast(s, n) == SubSeq(s, 1, Len(s) - n)
\* s.replace(a, b) for single characters a, b
ReplaceChar(s, a, b) == [i \in 1..Len(s) |-> IF s[i] = a THEN b ELSE s[i]]

\* all orders in which the elements of S can be listed
Orders(S) == {p \in [1..Cardinality(S) -> S] : \A x \in S : \E i \in DOMAIN p : p[i] = x}
SeqsUpTo(S, n) == UNION {[1..k -> S] : k \in 0..n}
Range(s) == {s[i] : i \in DOMAIN s}
BagOfSeq(s) == [x \in Range(s) |-> Cardinality({i \in DOMAIN s : s[i] = x})]

\* ------------------------------------------------------------ scenario.state helpers
RelationChangedSuffix == <<"-", "r", "e", "l", "a", "t", "i", "o", "n", "-", "c", "h", "a", "n", "g", "e", "d">>
RelationJoinedSuffix == <<"-", "r", "e", "l", "a", "t", "i", "o", "n", "-", "j", "o", "i", "n", "e", "d">>
PebbleReadySuffix == <<"-", "p", "e", "b", "b", "l", "e", "-", "r", "e", "a", "d", "y">>
SecretPrefix == <<"s", "e", "c", "r", "e", "t", "-">>
ActionSuffix == <<"_", "a", "c", "t", "i", "o", "n">>

is_relation_event(name) == EndsWith(name, RelationChangedSuffix) \/ EndsWith(name, RelationJoinedSuffix)
is_workload_event(name) == EndsWith(name, PebbleReadySuffix)
is_secret_event(name) == StartsWith(name, SecretPrefix)
normalize_name(s) == ReplaceChar(s, "-", "_")

\* ------------------------------------------------------------ ConsistencyChecker
\* The result of one check: the diagnostics it returned, or the exception it raised.
Returned(errs) == [raised |-> None, errors |-> errs]
Raised(exc) == [raised |-> Some(exc), errors |-> <<>>]

RECURSIVE ParseInt(_)
ParseInt(s) == IF s = <<>> THEN 0
               ELSE 10 * ParseInt(DropLast(s, 1)) + (CHOOSE d \in 0..9 : ToString(d) = s[Len(s)])
\* tuple(map(int, juju_version.split(".")))[0]
VersionMajor(v) ==
    LET dots == {i \in 1..Len(v) : v[i] = "."}
        stop == IF dots = {} THEN Len(v) + 1 ELSE CHOOSE i \in dots : \A j \in dots : i <= j
    IN ParseInt(SubSeq(v, 1, stop - 1))

\* _check_event without the endpoint-prefix test
_check_event_no_prefix(event) ==
    IF is_relation_event(event.name) /\ IsNone(event.relation) THEN Raised("AttributeError")
    ELSE IF is_workload_event(event.name) /\ IsNone(event.container) THEN Raised("AttributeError")
    ELSE Returned(<<>>)
_check_event(event) ==
    LET name == event.name
        relErrs ==
            (IF IsNone(event.relation) /\ is_relation_event(name)
                THEN <<<<"relation event without relation instance">>>> ELSE <<>>)
            \o (IF is_relation_event(name)
                   /\ ~StartsWith(name, normalize_name(Val(event.relation).endpoint))
                THEN <<<<"relation event should start with endpoint", name, Val(event.relation).endpoint>>>>
                ELSE <<>>)
        wlErrs ==
            (IF IsNone(event.container) /\ is_workload_event(name)
                THEN <<<<"workload event without container instance">>>> ELSE <<>>)
            \o (IF is_workload_event(name)
                   /\ ~StartsWith(name, normalize_name(Val(event.container).name))
                THEN <<<<"workload event should start with container name", name, Val(event.container).name>>>>
                ELSE <<>>)
    IN IF is_relation_event(name) /\ IsNone(event.relation) THEN Raised("AttributeError")
       ELSE IF is_workload_event(name) /\ IsNone(event.container) THEN Raised("AttributeError")
       ELSE Returned(relErrs \o wlErrs)

\* converters with "attrs" mapped to object, which every value is an instance of
ConverterAttrsObject(tn) ==
    CASE tn = "string" -> Some({"str"})
      [] tn \in {"int", "integer"} -> Some({"int", "bool"})
      [] tn = "number" -> Some({"float"})
      [] tn = "boolean" -> Some({"bool"})
      [] tn = "attrs" -> Some({"str", "int", "float", "bool"})
      [] OTHER -> None
\* converters.get(expected_type_name): the classes isinstance accepts, or no class
Converter(tn) ==
    CASE tn = "string" -> Some({"str"})
      [] tn \in {"int", "integer"} -> Some({"int", "bool"})
      [] tn = "number" -> Some({"float"})
      [] tn = "boolean" -> Some({"bool"})
      [] OTHER -> None

LookupOpt(pairs, key) ==
    IF \E i \in DOMAIN pairs : pairs[i][1] = key
    THEN Some(pairs[CHOOSE i \in DOMAIN pairs : pairs[i][1] = key][2])
    ELSE None

RECURSIVE ConfigErrors(_, _)
ConfigErrors(items, meta_config) ==
    IF items = <<>> THEN <<>>
    ELSE LET key == items[1][1]
             value == items[1][2]
             opt == LookupOpt(meta_config, key)
             here ==
                IF IsNone(opt) THEN <<<<"config option not in config.yaml", key>>>>
                ELSE IF Val(opt).type = "" THEN <<<<"config option has no type", key>>>>
                ELSE IF value.type \notin Val(Converter(Val(opt).type))
                     THEN <<<<"config option of wrong type", key, Val(opt).type, value.type>>>>
                     ELSE <<>>
         IN here \o ConfigErrors(Tail(items), meta_config)

_check_config(state, charm_spec) ==
    LET meta_config == IF IsNone(charm_spec.config) THEN <<>> ELSE Val(charm_spec.config)
        items == state.config
        typeError == \E i \in DOMAIN items :
                        LET opt == LookupOpt(meta_config, items[i][1])
                        IN ~IsNone(opt) /\ Val(opt).type # "" /\ IsNone(Converter(Val(opt).type))
    IN IF typeError THEN Raised("TypeError") ELSE Returned(ConfigErrors(items, meta_config))

\* juju_version.split(".")
RECURSIVE Split(_)
Split(v) ==
    LET dots == {i \in 1..Len(v) : v[i] = "."}
    IN IF dots = {} THEN <<v>>
       ELSE LET d == CHOOSE i \in dots : \A j \in dots : i <= j
            IN <<SubSeq(v, 1, d - 1)>> \o Split(SubSeq(v, d + 1, Len(v)))
\* tuple(map(int, juju_version.split(".")))
VersionTuple(v) == LET parts == Split(v) IN [i \in DOMAIN parts |-> ParseInt(parts[i])]
\* a <= b on tuples of integers
RECURSIVE TupleLessOrEqual(_, _)
TupleLessOrEqual(a, b) ==
    IF a = <<>> THEN TRUE
    ELSE IF b = <<>> THEN FALSE
    ELSE IF a[1] # b[1] THEN a[1] < b[1]
    ELSE TupleLessOrEqual(Tail(a), Tail(b))
\* a < b on tuples of integers: the first difference decides, a proper prefix is less
RECURSIVE TupleLess(_, _)
TupleLess(a, b) ==
    IF b = <<>> THEN FALSE
    ELSE IF a = <<>> THEN TRUE
    ELSE IF a[1] # b[1] THEN a[1] < b[1]
    ELSE TupleLess(Tail(a), Tail(b))

_check_secrets(state, event, juju_version) ==
    Returned(
        (IF is_secret_event(event.name) /\ state.secrets = <<>>
            THEN <<<<"secret event but the state has no secrets">>>> ELSE <<>>)
        \o (IF (is_secret_event(event.name) \/ state.secrets # <<>>)
                  /\ TupleLess(VersionTuple(juju_version), <<3>>)
            THEN <<<<"secrets not supported in juju version", juju_version>>>> ELSE <<>>))

\* _check_containers without the test of state.containers against the metadata
_check_containers_event_only(state, event, charm_spec) ==
    LET meta_containers == charm_spec.meta.containers
        state_containers == state.containers
        evt_container_name == DropLast(event.name, Len(PebbleReadySuffix))
    IN Returned(
        (IF is_workload_event(event.name) /\ evt_container_name \notin meta_containers
            THEN <<<<"event container not declared in metadata", evt_container_name>>>> ELSE <<>>)
        \o (IF is_workload_event(event.name) /\ evt_container_name \notin state_containers
            THEN <<<<"event container not present in state", evt_container_name>>>> ELSE <<>>))
_check_containers(state, event, charm_spec) ==
    LET meta_containers == charm_spec.meta.containers
        state_containers == state.containers
        evt_container_name == DropLast(event.name, Len(PebbleReadySuffix))
        diff == state_containers \ meta_containers
    IN Returned(
        (IF is_workload_event(event.name) /\ evt_container_name \notin meta_containers
            THEN <<<<"event container not declared in metadata", evt_container_name>>>> ELSE <<>>)
        \o (IF is_workload_event(event.name) /\ evt_container_name \notin state_containers
            THEN <<<<"event container not present in state", evt_container_name>>>> ELSE <<>>)
        \o (IF diff # {}
            THEN <<<<"state containers missing from metadata", diff>>>> ELSE <<>>))

\* a run without the try around check(): the exception leaves run
ExceptClauseAbsent(check, exc) == [errors |-> <<>>, raise |-> Some(exc)]
\* except Exception as e: errors.append(...); continue
ExceptClause(check, exc) ==
    [errors |-> <<<<"unexpected error processing check", check, exc>>>>, raise |-> None]

CheckDiagnostics(check, r) ==
    IF IsNone(r.raised) THEN r.errors
    ELSE ExceptClause(check, Val(r.raised)).errors

\* a run that never looks at the environment
SkipChecksNever(environ) == FALSE
\* if os.getenv("SCENARIO_SKIP_CONSISTENCY_CHECKS"): the variable is set and its
\* value is not the empty string
SkipChecks(environ) ==
    /\ "SCENARIO_SKIP_CONSISTENCY_CHECKS" \in DOMAIN environ
    /\ environ["SCENARIO_SKIP_CONSISTENCY_CHECKS"] # <<>>

\* ConsistencyChecker(state, event, charm_spec, juju_version).run(): the diagnostics
\* it raises InconsistentScenarioError with; <<>> when it returns normally.
ConsistencyCheckerRun(state, event, charm_spec, juju_version, environ) ==
    IF SkipChecks(environ) THEN <<>>
    ELSE CheckDiagnostics("_check_containers", _check_containers(state, event, charm_spec))
         \o CheckDiagnostics("_check_config", _check_config(state, charm_spec))
         \o CheckDiagnostics("_check_event", _check_event(event))
         \o CheckDiagnostics("_check_secrets", _check_secrets(state, event, juju_version))

\* ------------------------------------------------------------ handle paths
\* ops.framework._event_regex, r'^(|.*/)on/[a-zA-Z_]+\[\d+\]$', under re.match
event_regex_match(h) ==
    \E i \in 0..Len(h), j \in 1..Len(h) :
        /\ (i = 0 \/ h[i] = "/")
        /\ i + 4 < j
        /\ SubSeq(h, i + 1, i + 3) = <<"o", "n", "/">>
        /\ \A k \in (i + 4)..(j - 1) : h[k] \in Letters \cup {"_"}
        /\ h[j] = "["
        /\ j + 1 < Len(h)
        /\ \A k \in (j + 1)..(Len(h) - 1) : h[k] \in Digits
        /\ h[Len(h)] = "]"

\* The ways "((?P<owner_path>.*)\/)?(?P<data_type_name>\D+)\[(?P<name>.*)\]" can
\* match a prefix of h: i is the length of owner_path (-1 when the optional group
\* does not take part), j the index of "[" and k the index of the final "]".
SstSplits(h) ==
    {t \in ((-1)..Len(h)) \X (1..Len(h)) \X (1..Len(h)) :
        LET i == t[1]
            j == t[2]
            k == t[3]
            first == IF i = -1 THEN 1 ELSE i + 2
        IN /\ (i # -1 => (i + 1 <= Len(h) /\ h[i + 1] = "/"))
           /\ first < j
           /\ \A m \in first..(j - 1) : h[m] \notin Digits
           /\ h[j] = "["
           /\ j < k
           /\ h[k] = "]"}

\* The split the backtracking matcher finds first: the optional group is tried
\* before it is skipped, and every quantifier is greedy.
SstBefore(a, b) ==
    \/ (a[1] # -1 /\ b[1] = -1)
    \/ ((a[1] = -1) = (b[1] = -1) /\ a[1] > b[1])
    \/ (a[1] = b[1] /\ a[2] > b[2])
    \/ (a[1] = b[1] /\ a[2] = b[2] /\ a[3] >= b[3])

\* re.compile(_stored_state_regex).match(h).groupdict(), or None
sst_regex_match(h) ==
    LET splits == SstSplits(h)
    IN IF splits = {} THEN None
       ELSE LET t == CHOOSE a \in splits : \A b \in splits : SstBefore(a, b)
                first == IF t[1] = -1 THEN 1 ELSE t[1] + 2
            IN Some([owner_path |-> IF t[1] = -1 THEN None ELSE Some(SubSeq(h, 1, t[1])),
                     data_type_name |-> SubSeq(h, first, t[2] - 1),
                     name |-> SubSeq(h, t[2] + 1, t[3] - 1)])

\* StoredState.handle_path: (owner_path/)?type_name[instance_name]
StoredStateHandlePath(sst) ==
    (IF IsNone(sst.owner_path) THEN <<>> ELSE Val(sst.owner_path) \o <<"/">>)
    \o sst.data_type_name \o <<"[">> \o sst.name \o <<"]">>

\* ------------------------------------------------------------ the store
\* SQLiteStorage on <charm root>/.unit-state.db: snapshots by handle path and
\* the notices in the order they were saved.
EmptyStore == [snapshots |-> <<>>, notices |-> <<>>]
HasSnapshot(store, h) == \E i \in DOMAIN store.snapshots : store.snapshots[i][1] = h
save_snapshot(store, h, data) ==
    [store EXCEPT !.snapshots =
        IF HasSnapshot(store, h)
        THEN [i \in DOMAIN @ |-> IF @[i][1] = h THEN <<h, data>> ELSE @[i]]
        ELSE Append(@, <<h, data>>)]
load_snapshot(store, h) == store.snapshots[CHOOSE i \in DOMAIN store.snapshots : store.snapshots[i][1] = h][2]
save_notice(store, h, owner, observer) == [store EXCEPT !.notices = Append(@, <<h, owner, observer>>)]
notices(store, h) == SelectSeq(store.notices, LAMBDA n : n[1] = h)
SnapshotKeys(store) == {store.snapshots[i][1] : i \in DOMAIN store.snapshots}

\* ------------------------------------------------------------ payloads
\* Snapshot payloads and stored-state contents; marshal.dumps accepts the simple ones.
EmptyDict == [simple |-> TRUE, repr |-> "{}"]
DictA == [simple |-> TRUE, repr |-> "{'a': 1}"]
DictObject == [simple |-> FALSE, repr |-> "{'a': <object>}"]
marshal_dumps_ok(data) == data.simple

\* DeferredEvent(handle_path=..., owner=..., observer=...): snapshot_data takes its default
DeferredEvent(handle, owner, observer) ==
    [handle_path |-> handle, owner |-> owner, observer |-> observer, snapshot_data |-> EmptyDict]
\* StoredState(content=..., **match.groupdict())
StoredState(content, kwargs) ==
    [owner_path |-> kwargs.owner_path, data_type_name |-> kwargs.data_type_name,
     name |-> kwargs.name, content |-> content]

\* ------------------------------------------------------------ storage bridge
\* the deferred loop without the marshal.dumps test
RECURSIVE PrimeDeferredNoMarshal(_, _)
PrimeDeferredNoMarshal(store, deferred) ==
    IF deferred = <<>> THEN [store |-> store, error |-> None]
    ELSE LET event == deferred[1]
             noticed == save_notice(store, event.handle_path, event.owner, event.observer)
         IN PrimeDeferredNoMarshal(
                save_snapshot(noticed, event.handle_path, event.snapshot_data), Tail(deferred))
\* for event in state.deferred: save_notice, marshal.dumps, save_snapshot
RECURSIVE PrimeDeferred(_, _)
PrimeDeferred(store, deferred) ==
    IF deferred = <<>> THEN [store |-> store, error |-> None]
    ELSE LET event == deferred[1]
             noticed == save_notice(store, event.handle_path, event.owner, event.observer)
         IN IF ~marshal_dumps_ok(event.snapshot_data)
            THEN [store |-> noticed, error |-> Some([type |-> "ValueError", event |-> event])]
            ELSE PrimeDeferred(save_snapshot(noticed, event.handle_path, event.snapshot_data),
                               Tail(deferred))

RECURSIVE PrimeStored(_, _)
PrimeStored(store, stored) ==
    IF stored = <<>> THEN store
    ELSE PrimeStored(save_snapshot(store, StoredStateHandlePath(stored[1]), stored[1].content),
                     Tail(stored))

\* Runtime._initialize_storage(state, root): the store it leaves in the root and
\* the error it raises, if any
_initialize_storage(state, store) ==
    LET d == PrimeDeferred(store, state.deferred)
    IN IF ~IsNone(d.error) THEN d
       ELSE [store |-> PrimeStored(d.store, state.stored_state), error |-> None]

DrainedDeferredOf(store, handle_path) ==
    LET ns == notices(store, handle_path)
    IN [i \in DOMAIN ns |-> DeferredEvent(ns[i][1], ns[i][2], ns[i][3])]

RECURSIVE DrainDeferred(_, _)
DrainDeferred(store, keys) ==
    IF keys = <<>> THEN <<>>
    ELSE (IF event_regex_match(keys[1]) THEN DrainedDeferredOf(store, keys[1]) ELSE <<>>)
         \o DrainDeferred(store, Tail(keys))

\* the loop left at the first key that is neither an event nor a stored state
RECURSIVE DrainStoredStopAtUnmatched(_, _)
DrainStoredStopAtUnmatched(store, keys) ==
    IF keys = <<>> THEN <<>>
    ELSE LET match == sst_regex_match(keys[1])
         IN IF event_regex_match(keys[1]) THEN DrainStoredStopAtUnmatched(store, Tail(keys))
            ELSE IF IsNone(match) THEN <<>>
            ELSE <<StoredState(load_snapshot(store, keys[1]), Val(match))>>
                 \o DrainStoredStopAtUnmatched(store, Tail(keys))
\* the else branch of the loop: load_snapshot, sst_regex.match, `continue` or append
RECURSIVE DrainStored(_, _)
DrainStored(store, keys) ==
    IF keys = <<>> THEN <<>>
    ELSE LET match == sst_regex_match(keys[1])
         IN (IF ~event_regex_match(keys[1]) /\ ~IsNone(match)
             THEN <<StoredState(load_snapshot(store, keys[1]), Val(match))>>
             ELSE <<>>)
            \o DrainStored(store, Tail(keys))

\* _close_storage adding the drained entries to the lists the state already has
_close_storage_append(state, store, keys) ==
    [state EXCEPT !.deferred = @ \o DrainDeferred(store, keys),
                  !.stored_state = @ \o DrainStored(store, keys)]
\* Runtime._close_storage(state, root), store.list_snapshots() listing the keys as `keys`
_close_storage(state, store, keys) ==
    [state EXCEPT !.deferred = DrainDeferred(store, keys),
                  !.stored_state = DrainStored(store, keys)]

\* ------------------------------------------------------------ environment
LocalUnit == <<"l", "o", "c", "a", "l", "/", "0">>
DispatchMarker == <<".", "/", "d", "i", "s", "p", "a", "t", "c", "h">>
HooksPrefix == <<"h", "o", "o", "k", "s", "/">>

\* the working directory of the process
Cwd == <<"/", "w">>
\* Path.absolute(): a relative path is put under the working directory
Absolute(path) ==
    IF StartsWith(path, <<"/">>) THEN path ELSE Cwd \o <<"/">> \o path

\* what a call gives back: a value, or the exception it raises
Value(v) == [raised |-> None, value |-> Some(v)]
Throw(exc) == [raised |-> Some(exc), value |-> None]

\* `not meta`: the metadata mapping has no key at all
MetaIsEmpty(meta) == IsNone(meta.name) /\ meta.containers = {}
\* a unit name that never falls back to "local/0"
unit_name_no_fallback(charm_spec) ==
    IF IsNone(charm_spec.meta.name) THEN Throw("KeyError")
    ELSE Value(Val(charm_spec.meta.name) \o <<"/", "0">>)
\* Runtime.unit_name
unit_name(charm_spec) ==
    IF MetaIsEmpty(charm_spec.meta) THEN Value(LocalUnit)
    ELSE IF IsNone(charm_spec.meta.name) THEN Throw("KeyError")
    ELSE Value(Val(charm_spec.meta.name) \o <<"/", "0">>)

\* an action name that keeps the underscores
ActionNameNoReplace(name) ==
    IF EndsWith(name, ActionSuffix) THEN DropLast(name, Len(ActionSuffix)) ELSE <<>>
\* action_name in _get_event_env
ActionName(name) ==
    IF EndsWith(name, ActionSuffix)
    THEN ReplaceChar(DropLast(name, Len(ActionSuffix)), "_", "-")
    ELSE <<>>

\* the secret part of the env without the label of an unlabelled secret
SecretEnvNoDefault(secret) ==
    ("JUJU_SECRET_ID" :> secret.id)
    @@ (IF IsNone(secret.label) THEN <<>> ELSE ("JUJU_SECRET_LABEL" :> Val(secret.label)))
\* the keys an event's secret adds: the label is `secret.label or ""`
SecretEnv(secret) ==
    ("JUJU_SECRET_ID" :> secret.id)
    @@ ("JUJU_SECRET_LABEL" :> IF IsNone(secret.label) THEN <<>> ELSE Val(secret.label))

\* the env dict Runtime._get_event_env builds once the unit name is known
EventEnv(state, event, charm_root, unit, juju_version) ==
    LET action_name == ActionName(event.name)
        base == [k \in {"JUJU_VERSION", "JUJU_UNIT_NAME", "_", "JUJU_DISPATCH_PATH",
                        "JUJU_MODEL_NAME", "JUJU_ACTION_NAME", "JUJU_MODEL_UUID",
                        "JUJU_CHARM_DIR"} |->
                    CASE k = "JUJU_VERSION" -> juju_version
                      [] k = "JUJU_UNIT_NAME" -> unit
                      [] k = "_" -> DispatchMarker
                      [] k = "JUJU_DISPATCH_PATH" -> HooksPrefix \o event.name
                      [] k = "JUJU_MODEL_NAME" -> state.model.name
                      [] k = "JUJU_ACTION_NAME" -> action_name
                      [] k = "JUJU_MODEL_UUID" -> state.model.uuid
                      [] k = "JUJU_CHARM_DIR" -> Absolute(charm_root)]
        rel == IF IsNone(event.relation) THEN <<>>
               ELSE ("JUJU_RELATION" :> Val(event.relation).endpoint)
                    @@ ("JUJU_RELATION_ID" :> <<ToString(Val(event.relation).relation_id)>>)
        wl == IF IsNone(event.container) THEN <<>>
              ELSE ("JUJU_WORKLOAD_NAME" :> Val(event.container).name)
        sec == IF IsNone(event.secret) THEN <<>> ELSE SecretEnv(Val(event.secret))
    IN sec @@ wl @@ rel @@ base

\* Runtime._get_event_env(state, event, charm_root): the env dict, or the exception
\* of self.unit_name
_get_event_env(state, event, charm_root, charm_spec, juju_version) ==
    LET unit == unit_name(charm_spec)
    IN IF ~IsNone(unit.raised) THEN Throw(Val(unit.raised))
       ELSE Value(EventEnv(state, event, charm_root, Val(unit.value), juju_version))

\* os.environ.update(env)
EnvironUpdate(environ, env) == env @@ environ
\* an unset that clears the whole environment block
UnsetenvAll(environ, env) == <<>>
\* for key in env: os.unsetenv(key)
Unsetenv(environ, env) == [k \in DOMAIN environ \ DOMAIN env |-> environ[k]]

\* ------------------------------------------------------------ inputs
App == <<"a", "p", "p">>
Db == <<"d", "b">>
Kv == <<"k", "v">>
Cache == <<"c", "a", "c", "h", "e">>
CharmOwner == <<"C">>
CustomPath == <<"/", "c">>
TmpPath == <<"/", "t">>
JujuVersion == <<"3", ".", "0", ".", "0">>

Event(name, relation, container, secret) ==
    [name |-> name, relation |-> relation, container |-> container, secret |-> secret]
Relation(endpoint, id) == [endpoint |-> endpoint, relation_id |-> id]
Container(name) == [name |-> name]

EvStart == Event(<<"s", "t", "a", "r", "t">>, None, None, None)
EvDbChanged == Event(Db \o RelationChangedSuffix, Some(Relation(Db, 1)), None, None)
EvDbChangedNoRelation == Event(Db \o RelationChangedSuffix, None, None, None)
EvDbChangedOtherRelation == Event(Db \o RelationChangedSuffix, Some(Relation(Kv, 2)), None, None)
EvCacheReady == Event(Cache \o PebbleReadySuffix, None, Some(Container(Cache)), None)
Events == {EvStart, EvDbChanged, EvDbChangedNoRelation, EvDbChangedOtherRelation, EvCacheReady}
\* Secret(id, label): label is optional
Secret(id, label) == [id |-> id, label |-> label]
SecretS == Secret(<<"s", "1">>, None)
EvSecretChanged == Event(SecretPrefix \o <<"c", "h", "a", "n", "g", "e", "d">>, None, None, Some(SecretS))

\* deferred events: handle path <owner>/on/<event kind>[<n>]
DeferredA1 ==
    [handle_path |-> <<"C", "/", "o", "n", "/", "a", "[", "1", "]">>, owner |-> CharmOwner,
     observer |-> <<"f">>, snapshot_data |-> EmptyDict]
DeferredA2 ==
    [handle_path |-> <<"C", "/", "o", "n", "/", "a", "[", "2", "]">>, owner |-> CharmOwner,
     observer |-> <<"f">>, snapshot_data |-> DictA]
DeferredA1g ==
    [handle_path |-> <<"C", "/", "o", "n", "/", "a", "[", "1", "]">>, owner |-> CharmOwner,
     observer |-> <<"g">>, snapshot_data |-> EmptyDict]
DeferredB3 ==
    [handle_path |-> <<"C", "/", "o", "n", "/", "b", "[", "3", "]">>, owner |-> CharmOwner,
     observer |-> <<"f">>, snapshot_data |-> DictObject]

\* stored-state entries
StoredCT == [owner_path |-> Some(CharmOwner), data_type_name |-> <<"T">>, name |-> <<"s">>, content |-> DictA]
StoredT == [owner_path |-> None, data_type_name |-> <<"T">>, name |-> <<"s">>, content |-> EmptyDict]
StoredLibT == [owner_path |-> Some(<<"C", "/", "l">>), data_type_name |-> <<"T">>, name |-> <<"s">>, content |-> DictA]
StoredCT2 == [owner_path |-> Some(CharmOwner), data_type_name |-> <<"T", "2">>, name |-> <<"s">>, content |-> DictA]

State(deferred, stored_state) ==
    [config |-> <<>>, containers |-> {Cache}, secrets |-> <<>>,
     model |-> [name |-> <<"m">>, uuid |-> <<"u">>],
     unit_status |-> "unknown",
     deferred |-> deferred, stored_state |-> stored_state]

CharmSpec(is_autoloaded) ==
    [charm_type |-> "MyCharm",
     meta |-> [name |-> Some(App), containers |-> {Cache}],
     config |-> None, actions |-> None,
     is_autoloaded |-> is_autoloaded]

\* the input states of the dispatches
InputStates ==
    {State(<<>>, <<>>), State(<<DeferredA2>>, <<StoredCT>>), State(<<DeferredB3>>, <<>>),
     State(<<DeferredA2, DeferredB3>>, <<StoredCT>>)}

\* Runtime(charm_spec, charm_root, juju_version)
Runtime(charm_spec, charm_root, juju_version) ==
    [charm_spec |-> charm_spec, charm_root |-> charm_root, juju_version |-> juju_version]
\* caller-supplied metadata that declares the container and has no name
NamelessSpec == [CharmSpec(FALSE) EXCEPT !.meta.name = None]
\* a spec with config options and actions, loaded from the charm's files or given
FullSpec(is_autoloaded) ==
    [CharmSpec(is_autoloaded) EXCEPT !.config = Some(<<<<<<"x">>, [type |-> "int"]>>>>),
                                     !.actions = Some(<<"do-it">>)]
Runtimes ==
    {Runtime(CharmSpec(FALSE), None, JujuVersion),
     Runtime(FullSpec(TRUE), Some(CustomPath), JujuVersion),
     Runtime(FullSpec(FALSE), Some(CustomPath), JujuVersion),
     Runtime(NamelessSpec, None, JujuVersion)}

\* os.environ when the caller starts: the opt-out flag unset, set to "1", set to ""
Environs ==
    {<<>>, "SCENARIO_SKIP_CONSISTENCY_CHECKS" :> <<"1">>,
     "SCENARIO_SKIP_CONSISTENCY_CHECKS" :> <<>>}

\* bool(x) of an optional mapping: None and the empty mapping are false
Truthy(x) == ~IsNone(x) /\ Val(x) # <<>> /\ Val(x) # [name |-> None, containers |-> {}]
\* yaml.safe_dump(v): the YAML document of a mapping
safe_dump(v) == <<"yaml", v>>
\* yaml.safe_dump of an optional mapping: None is written as the null document
SafeDumpOptional(x) == IF IsNone(x) THEN <<"yaml", <<"null">>>> ELSE safe_dump(Val(x))
\* x or {}
OrEmptyMapping(x) == IF Truthy(x) THEN Val(x) ELSE <<>>
\* the three documents written without the `or {}` defaults
MetadataDocumentsNoDefault(spec) ==
    [f \in {"metadata.yaml", "config.yaml", "actions.yaml"} |->
        CASE f = "metadata.yaml" -> safe_dump(spec.meta)
          [] f = "config.yaml" -> SafeDumpOptional(spec.config)
          [] f = "actions.yaml" -> SafeDumpOptional(spec.actions)]
\* the three documents virtual_charm_root writes
MetadataDocuments(spec) ==
    [f \in {"metadata.yaml", "config.yaml", "actions.yaml"} |->
        CASE f = "metadata.yaml" -> safe_dump(spec.meta)
          [] f = "config.yaml" -> safe_dump(OrEmptyMapping(spec.config))
          [] f = "actions.yaml" -> safe_dump(OrEmptyMapping(spec.actions))]
UserDocument == <<"user">>

\* ------------------------------------------------------------ state
VARIABLES
    pc,            \* where the caller is: "idle", a step of exec, or "done"
    execs,         \* number of exec calls started in this process
    call,          \* the Runtime (charm_spec, charm_root, juju_version) and the event of the exec
    heap,          \* the State objects: input (the caller's), output (exec's output_state)
    os_environ,    \* os.environ
    proc_environ,  \* the environment block putenv/unsetenv act on
    custom_root,   \* the caller's charm_root directory
    tmp_root,      \* the TemporaryDirectory of this exec
    env,           \* exec's local env
    outcome,       \* what exec gave the caller: nothing yet, a returned State or a raised error
    charm,         \* what the charm entry point did in this exec
    pre,           \* the world when exec was called
    trace,         \* the steps this exec has taken
    rt_pc,         \* storage round trip: "primed", "drained" or "failed"
    rt_state,      \* storage round trip: the input State
    rt_store,      \* storage round trip: the store
    rt_out,        \* storage round trip: the drained State
    on_classes,    \* sessions: the events classes, each with its parent and own attributes
    sess,          \* sessions: per session its charm type, framework observers and firings
    cc_pc,         \* checker run: "start", "loop", "returned" or "raised"
    cc_in,         \* checker run: the ConsistencyChecker's fields and the environment
    cc_i,          \* checker run: index of the next check of the loop
    cc_errors,     \* checker run: the errors list of run
    cc_ran,        \* checker run: per check evaluated so far, what it returned or raised
    cc_exc,        \* checker run: the exception that left run, if any
    env_pc,        \* environment: "start", "built" or "raised"
    env_in,        \* environment: the Runtime's fields and the arguments of _get_event_env
    env_out,       \* environment: the env dict returned, if any
    pg_stored,     \* pgsql client: _stored.master
    pg_emitted,    \* pgsql client: the payloads of the master_changed events emitted
    pg_history     \* pgsql client: the events handled so far and what they found

execVars == <<pc, execs, call, heap, os_environ, proc_environ, custom_root, tmp_root, env,
              outcome, charm, pre, trace>>
rtVars == <<rt_pc, rt_state, rt_store, rt_out>>
sessVars == <<on_classes, sess>>
ccVars == <<cc_pc, cc_in, cc_i, cc_errors, cc_ran, cc_exc>>
envVars == <<env_pc, env_in, env_out>>
pgVars == <<pg_stored, pg_emitted, pg_history>>
vars == <<pc, execs, call, heap, os_environ, proc_environ, custom_root, tmp_root, env,
          outcome, charm, pre, trace, rt_pc, rt_state, rt_store, rt_out,
          on_classes, sess, cc_pc, cc_in, cc_i, cc_errors, cc_ran, cc_exc,
          env_pc, env_in, env_out, pg_stored, pg_emitted, pg_history>>

\* a directory: its files, the store in its .unit-state.db, and whether the Runtime
\* holds a connection to that store it has not closed
Dir(files, store) == [exists |-> TRUE, files |-> files, store |-> store, store_open |-> FALSE]
NoDir == [exists |-> FALSE, files |-> <<>>, store |-> None, store_open |-> FALSE]
NoOutcome == [kind |-> "none", state |-> None, error |-> None]
Error(type, cause, detail) == [type |-> type, cause |-> cause, detail |-> detail]
MetadataFiles == {"metadata.yaml", "config.yaml", "actions.yaml"}

RtIdle ==
    /\ rt_pc = "unused"
    /\ rt_state = State(<<>>, <<>>)
    /\ rt_store = EmptyStore
    /\ rt_out = None

ExecIdle ==
    /\ pc = "idle"
    /\ execs = 0
    /\ call = None
    /\ heap = [input |-> None, output |-> None]
    /\ os_environ = <<>>
    /\ proc_environ = <<>>
    /\ custom_root = Dir(<<>>, None)
    /\ tmp_root = NoDir
    /\ env = None
    /\ outcome = NoOutcome
    /\ charm = [invocations |-> 0, raised |-> None]
    /\ pre = None
    /\ trace = <<>>

SessIdle ==
    /\ on_classes = <<>>
    /\ sess = <<>>

CcIdle ==
    /\ cc_pc = "unused"
    /\ cc_in = None
    /\ cc_i = 0
    /\ cc_errors = <<>>
    /\ cc_ran = <<>>
    /\ cc_exc = None

EnvIdle ==
    /\ env_pc = "unused"
    /\ env_in = None
    /\ env_out = None

PgIdle ==
    /\ pg_stored = None
    /\ pg_emitted = <<>>
    /\ pg_history = <<>>

Init ==
    /\ pc = "idle"
    /\ execs = 0
    /\ call = None
    /\ heap = [input |-> None, output |-> None]
    /\ os_environ \in Environs
    /\ proc_environ = os_environ
    /\ custom_root \in {Dir(<<>>, None), Dir("metadata.yaml" :> UserDocument, None),
                        Dir("charm.py" :> UserDocument, None)}
    /\ tmp_root = NoDir
    /\ env = None
    /\ outcome = NoOutcome
    /\ charm = [invocations |-> 0, raised |-> None]
    /\ pre = None
    /\ trace = <<>>
    /\ RtIdle
    /\ SessIdle
    /\ CcIdle
    /\ EnvIdle
    /\ PgIdle

\* ------------------------------------------------------------ Runtime.exec
Step(name, next) == pc' = next /\ trace' = Append(trace, name)
\* an exception leaves exec
Raise(name, error) ==
    /\ pc' = "done"
    /\ trace' = Append(trace, name)
    /\ outcome' = [kind |-> "raised", state |-> None, error |-> Some(error)]

UsesCustomRoot == ~IsNone(call.charm_root)
Root == IF UsesCustomRoot THEN custom_root ELSE tmp_root
RootPath == IF UsesCustomRoot THEN Val(call.charm_root) ELSE TmpPath
SetRoot(dir) ==
    IF UsesCustomRoot THEN custom_root' = dir /\ UNCHANGED tmp_root
    ELSE tmp_root' = dir /\ UNCHANGED custom_root
\* An exception leaves the with block: virtual_charm_root does not resume after its
\* yield, so a TemporaryDirectory is removed only by its finalizer, which runs as the
\* generator is released (reference counting) or at some later collection.
SetRootRaising(dir) ==
    IF UsesCustomRoot THEN custom_root' = dir /\ UNCHANGED tmp_root
    ELSE tmp_root' \in {dir, NoDir} /\ UNCHANGED custom_root

\* the caller builds a Runtime and calls exec(state, event)
CallWith(bound, states, events, runtimes) ==
    /\ pc \in {"idle", "done"}
    /\ execs < bound
    /\ \E state \in states, event \in events, rt \in runtimes :
            /\ call' = [charm_spec |-> rt.charm_spec, charm_root |-> rt.charm_root,
                        juju_version |-> rt.juju_version, event |-> event]
            /\ heap' = [input |-> Some(state), output |-> None]
            /\ pre' = Some([input |-> state, os_environ |-> os_environ,
                            proc_environ |-> proc_environ, custom_root |-> custom_root])
    /\ execs' = execs + 1
    /\ pc' = "check"
    /\ trace' = <<>>
    /\ tmp_root' = NoDir
    /\ env' = None
    /\ outcome' = NoOutcome
    /\ charm' = [invocations |-> 0, raised |-> None]
    /\ UNCHANGED <<os_environ, proc_environ, custom_root, rtVars, sessVars, ccVars, envVars, pgVars>>
Call == CallWith(MaxExec, InputStates, Events, Runtimes)

\* exec going on although the checker found errors
ExecCheckIgnored ==
    /\ pc = "check"
    /\ Step("check", "copy")
    /\ UNCHANGED <<execs, call, heap, os_environ, proc_environ, custom_root, tmp_root, env,
                   outcome, charm, pre, rtVars, sessVars, ccVars, envVars, pgVars>>
\* ConsistencyChecker(state, event, self._charm_spec, self._juju_version).run()
ExecCheck ==
    /\ pc = "check"
    /\ LET errors == ConsistencyCheckerRun(Val(heap.input), call.event, call.charm_spec,
                                           call.juju_version, os_environ)
       IN IF errors # <<>>
          THEN Raise("check", Error("InconsistentScenarioError", None, errors))
          ELSE Step("check", "copy") /\ UNCHANGED outcome
    /\ UNCHANGED <<execs, call, heap, os_environ, proc_environ, custom_root, tmp_root, env,
                   charm, pre, rtVars, sessVars, ccVars, envVars, pgVars>>

\* State.copy(): a new object equal to the State, sharing nothing with it
StateCopy(state) == state

\* output_state = state.copy()
ExecCopy ==
    /\ pc = "copy"
    /\ heap' = [heap EXCEPT !.output = Some(StateCopy(Val(heap.input)))]
    /\ Step("copy", "vroot")
    /\ UNCHANGED <<execs, call, os_environ, proc_environ, custom_root, tmp_root, env,
                   outcome, charm, pre, rtVars, sessVars, ccVars, envVars, pgVars>>

\* metadata_files_present
metadata_files_present(dir) == \E f \in MetadataFiles : f \in DOMAIN dir.files

\* the dirty-root test with the autoload flag inverted
VrootIsDirtyInverted(spec, vroot_is_custom, dir) ==
    /\ ~(spec.is_autoloaded /\ vroot_is_custom)
    /\ spec.is_autoloaded /\ metadata_files_present(dir)
\* the dirty-root test without the autoload flag: any metadata file present is fatal
VrootIsDirtyAnyFiles(spec, vroot_is_custom, dir) == metadata_files_present(dir)
\* virtual_charm_root raises DirtyVirtualCharmRootError
VrootIsDirty(spec, vroot_is_custom, dir) ==
    /\ ~(spec.is_autoloaded /\ vroot_is_custom)
    /\ ~spec.is_autoloaded /\ metadata_files_present(dir)

\* with self.virtual_charm_root() as temporary_charm_root: up to the yield
ExecVroot ==
    /\ pc = "vroot"
    /\ LET dir == IF UsesCustomRoot THEN custom_root ELSE Dir(<<>>, None)
       IN IF VrootIsDirty(call.charm_spec, UsesCustomRoot, dir)
          THEN /\ Raise("vroot", Error("DirtyVirtualCharmRootError", None, RootPath))
               /\ SetRootRaising(dir)
          ELSE /\ SetRoot([dir EXCEPT !.files = MetadataDocuments(call.charm_spec) @@ @])
               /\ Step("vroot", "init_storage")
               /\ UNCHANGED outcome
    /\ UNCHANGED <<execs, call, heap, os_environ, proc_environ, env, charm, pre, rtVars, sessVars, ccVars, envVars, pgVars>>

OpenStore(dir) == IF IsNone(dir.store) THEN EmptyStore ELSE Val(dir.store)

\* exec priming the store and then calling the charm without applying the environment
ExecInitStorageThenMain ==
    /\ pc = "init_storage"
    /\ LET r == _initialize_storage(Val(heap.input), OpenStore(Root))
       IN IF ~IsNone(r.error)
          THEN /\ SetRootRaising([Root EXCEPT !.store = Some(r.store), !.store_open = TRUE])
               /\ Raise("init_storage", Error("ValueError", None, Val(r.error).event))
          ELSE /\ SetRoot([Root EXCEPT !.store = Some(r.store), !.store_open = FALSE])
               /\ Step("init_storage", "main")
               /\ UNCHANGED outcome
    /\ UNCHANGED <<execs, call, heap, os_environ, proc_environ, env, charm, pre, rtVars, sessVars, ccVars, envVars, pgVars>>
\* self._initialize_storage(state, temporary_charm_root)
ExecInitStorage ==
    /\ pc = "init_storage"
    /\ LET r == _initialize_storage(Val(heap.input), OpenStore(Root))
       IN IF ~IsNone(r.error)
          THEN /\ SetRootRaising([Root EXCEPT !.store = Some(r.store), !.store_open = TRUE])
               /\ Raise("init_storage", Error("ValueError", None, Val(r.error).event))
          ELSE /\ SetRoot([Root EXCEPT !.store = Some(r.store), !.store_open = FALSE])
               /\ Step("init_storage", "env")
               /\ UNCHANGED outcome
    /\ UNCHANGED <<execs, call, heap, os_environ, proc_environ, env, charm, pre, rtVars, sessVars, ccVars, envVars, pgVars>>

\* env = self._get_event_env(...); os.environ.update(env)
ExecEnv ==
    /\ pc = "env"
    /\ LET r == _get_event_env(Val(heap.input), call.event, RootPath, call.charm_spec,
                               call.juju_version)
       IN IF ~IsNone(r.raised)
          THEN /\ Raise("env", Error(Val(r.raised), None, <<>>))
               /\ SetRootRaising(Root)
               /\ UNCHANGED <<env, os_environ, proc_environ>>
          ELSE /\ env' = r.value
               /\ os_environ' = EnvironUpdate(os_environ, Val(r.value))
               /\ proc_environ' = EnvironUpdate(proc_environ, Val(r.value))
               /\ Step("env", "main")
               /\ UNCHANGED <<custom_root, tmp_root, outcome>>
    /\ UNCHANGED <<execs, call, heap, charm, pre, rtVars, sessVars, ccVars, envVars, pgVars>>

\* ------------------------------------------------------------ the charm entry point
CharmRun(effect, mutate, raised) == [effect |-> effect, mutate |-> mutate, raised |-> raised]
\* the runs of the charm: what it does to the store, whether it changes the State
\* it was given, and the exception it ends with, if any
CharmRuns ==
    {CharmRun("none", FALSE, None), CharmRun("defer", TRUE, None),
     CharmRun("reemit", FALSE, None), CharmRun("store", TRUE, None),
     CharmRun("junk", FALSE, None), CharmRun("unstore", FALSE, None),
     CharmRun("none", TRUE, Some("NoObserverError")),
     CharmRun("defer", TRUE, Some("RuntimeError")),
     CharmRun("none", FALSE, Some("KeyError"))}
DeferredC9Handle == <<"C", "/", "o", "n", "/", "c", "[", "9", "]">>
JunkKey == <<"j">>

\* what the framework and the charm do to the store during one dispatch
CharmStore(store, effect) ==
    CASE effect = "none" -> store
      [] effect = "defer" ->
            save_snapshot(save_notice(store, DeferredC9Handle, CharmOwner, <<"f">>),
                          DeferredC9Handle, DictA)
      [] effect = "reemit" ->
            [snapshots |-> SelectSeq(store.snapshots, LAMBDA p : ~event_regex_match(p[1])),
             notices |-> <<>>]
      [] effect = "store" -> save_snapshot(store, StoredStateHandlePath(StoredCT), EmptyDict)
      [] effect = "junk" -> save_snapshot(store, JunkKey, EmptyDict)
      [] effect = "unstore" ->
            [store EXCEPT !.snapshots =
                SelectSeq(@, LAMBDA p : p[1] # StoredStateHandlePath(StoredCT))]

\* mocked_main given the caller's State instead of the copy
StateArgInput == "input"
\* the State object mocked_main is given: state=output_state
StateArg == "output"

\* a single except clause that wraps every exception
CharmErrorWrapAll(e) == Error("UncaughtCharmError", Some(e), <<>>)
\* the error exec raises for an exception of mocked_main
CharmError(e) ==
    IF e = "NoObserverError" THEN Error("NoObserverError", None, <<>>)
    ELSE Error("UncaughtCharmError", Some(e), <<>>)

\* ExecMain with an except clause that swallows the exception and returns output_state
ExecMainSwallow ==
    /\ pc = "main"
    /\ \E run \in CharmRuns :
        LET dir == [Root EXCEPT !.store = Some(CharmStore(Val(@), run.effect))]
        IN /\ heap' = [heap EXCEPT ![StateArg] =
                        Some([Val(@) EXCEPT !.unit_status = IF run.mutate THEN "active" ELSE @])]
           /\ charm' = [invocations |-> charm.invocations + 1, raised |-> run.raised]
           /\ IF IsNone(run.raised)
              THEN SetRoot(dir) /\ Step("main", "cleanup_env") /\ UNCHANGED outcome
              ELSE /\ SetRootRaising(dir)
                   /\ pc' = "done"
                   /\ trace' = Append(trace, "main")
                   /\ outcome' = [kind |-> "returned", state |-> heap'.output, error |-> None]
    /\ UNCHANGED <<execs, call, os_environ, proc_environ, env, pre, rtVars, sessVars, ccVars, envVars, pgVars>>

\* mocked_main(...), and the except clauses around it
ExecMain ==
    /\ pc = "main"
    /\ \E run \in CharmRuns :
        LET dir == [Root EXCEPT !.store = Some(CharmStore(Val(@), run.effect))]
        IN /\ heap' = [heap EXCEPT ![StateArg] =
                        Some([Val(@) EXCEPT !.unit_status = IF run.mutate THEN "active" ELSE @])]
           /\ charm' = [invocations |-> charm.invocations + 1, raised |-> run.raised]
           /\ IF IsNone(run.raised)
              THEN SetRoot(dir) /\ Step("main", "cleanup_env") /\ UNCHANGED outcome
              ELSE SetRootRaising(dir) /\ Raise("main", CharmError(Val(run.raised)))
    /\ UNCHANGED <<execs, call, os_environ, proc_environ, env, pre, rtVars, sessVars, ccVars, envVars, pgVars>>

\* self._cleanup_env(env)
ExecCleanupEnv ==
    /\ pc = "cleanup_env"
    /\ proc_environ' = Unsetenv(proc_environ, Val(env))
    /\ Step("cleanup_env", "close_storage")
    /\ UNCHANGED <<execs, call, heap, os_environ, custom_root, tmp_root, env, outcome, charm,
                   pre, rtVars, sessVars, ccVars, envVars, pgVars>>

\* output_state = self._close_storage(output_state, temporary_charm_root)
ExecCloseStorage ==
    /\ pc = "close_storage"
    /\ \E keys \in Orders(SnapshotKeys(Val(Root.store))) :
            heap' = [heap EXCEPT !.output = Some(_close_storage(Val(@), Val(Root.store), keys))]
    /\ Step("close_storage", "release")
    /\ UNCHANGED <<execs, call, os_environ, proc_environ, custom_root, tmp_root, env, outcome,
                   charm, pre, rtVars, sessVars, ccVars, envVars, pgVars>>

\* virtual_charm_root cleaning up whatever root it yielded
ExecReleaseAnyRoot ==
    /\ pc = "release"
    /\ IF UsesCustomRoot THEN custom_root' = NoDir /\ UNCHANGED tmp_root
       ELSE tmp_root' = NoDir /\ UNCHANGED custom_root
    /\ pc' = "done"
    /\ trace' = Append(trace, "release")
    /\ outcome' = [kind |-> "returned", state |-> heap.output, error |-> None]
    /\ UNCHANGED <<execs, call, heap, os_environ, proc_environ, env, charm, pre, rtVars, sessVars, ccVars, envVars, pgVars>>
\* virtual_charm_root after the yield, then return output_state
ExecRelease ==
    /\ pc = "release"
    /\ IF UsesCustomRoot THEN UNCHANGED <<custom_root, tmp_root>>
       ELSE tmp_root' = NoDir /\ UNCHANGED custom_root
    /\ pc' = "done"
    /\ trace' = Append(trace, "release")
    /\ outcome' = [kind |-> "returned", state |-> heap.output, error |-> None]
    /\ UNCHANGED <<execs, call, heap, os_environ, proc_environ, env, charm, pre, rtVars, sessVars, ccVars, envVars, pgVars>>

\* the finalizer of a TemporaryDirectory that was never cleaned up runs when the
\* object is collected, some time after exec has raised
FinalizeTmp ==
    /\ pc = "done"
    /\ tmp_root.exists
    /\ tmp_root' = NoDir
    /\ UNCHANGED <<pc, execs, call, heap, os_environ, proc_environ, custom_root, env, outcome,
                   charm, pre, trace, rtVars, sessVars, ccVars, envVars, pgVars>>

Next ==
    \/ Call
    \/ ExecCheck
    \/ ExecCopy
    \/ ExecVroot
    \/ ExecInitStorage
    \/ ExecEnv
    \/ ExecMain
    \/ ExecCleanupEnv
    \/ ExecCloseStorage
    \/ ExecRelease
    \/ FinalizeTmp

Spec == Init /\ [][Next]_vars

\* ------------------------------------------------------------ storage round trip
\* _initialize_storage then _close_storage on a fresh store, the charm not running
\* in between, for the deferred and stored_state lists up to the bounds.
StoredName == [owner_path |-> Some(CharmOwner), data_type_name |-> <<"T">>,
               name |-> <<"x", "/", "y", "[", "z", "]">>, content |-> EmptyDict]
RtDeferred == {DeferredA1, DeferredA2, DeferredA1g, DeferredB3}
RtStored == {StoredCT, StoredT, StoredLibT, StoredCT2, StoredName}
\* a State holds one stored-state entry per handle path
DistinctHandles(stored) ==
    \A i, j \in DOMAIN stored :
        StoredStateHandlePath(stored[i]) = StoredStateHandlePath(stored[j]) => i = j

InitRT ==
    /\ pc = "idle"
    /\ execs = 0
    /\ call = None
    /\ heap = [input |-> None, output |-> None]
    /\ os_environ = <<>>
    /\ proc_environ = <<>>
    /\ custom_root = Dir(<<>>, None)
    /\ tmp_root = NoDir
    /\ env = None
    /\ outcome = NoOutcome
    /\ charm = [invocations |-> 0, raised |-> None]
    /\ pre = None
    /\ trace = <<>>
    /\ rt_pc = "start"
    /\ \E deferred \in SeqsUpTo(RtDeferred, MaxDeferred),
          stored \in {l \in SeqsUpTo(RtStored, MaxStored) : DistinctHandles(l)} :
            rt_state = State(deferred, stored)
    /\ rt_store = EmptyStore
    /\ rt_out = None
    /\ SessIdle
    /\ CcIdle
    /\ EnvIdle
    /\ PgIdle

RtPrime ==
    /\ rt_pc = "start"
    /\ LET r == _initialize_storage(rt_state, rt_store)
       IN /\ rt_store' = r.store
          /\ rt_pc' = IF IsNone(r.error) THEN "primed" ELSE "failed"
    /\ UNCHANGED <<rt_state, rt_out, execVars, sessVars, ccVars, envVars, pgVars>>

RtDrain ==
    /\ rt_pc = "primed"
    /\ \E keys \in Orders(SnapshotKeys(rt_store)) :
            rt_out' = Some(_close_storage(rt_state, rt_store, keys))
    /\ rt_pc' = "drained"
    /\ UNCHANGED <<rt_state, rt_store, execVars, sessVars, ccVars, envVars, pgVars>>

NextRT == RtPrime \/ RtDrain

SpecRT == InitRT /\ [][NextRT]_vars

\* ------------------------------------------------------------ consecutive dispatches
\* Several exec calls in one process, one after the other, each on a fresh State.
SeqStates == {[State(<<DeferredA2>>, <<StoredCT>>) EXCEPT !.secrets = <<SecretS>>]}
SeqEvents == {EvStart, EvDbChanged, EvCacheReady, EvSecretChanged}
SeqRuntimes ==
    {Runtime(CharmSpec(FALSE), None, JujuVersion),
     Runtime(CharmSpec(TRUE), Some(CustomPath), JujuVersion)}

InitSeq ==
    /\ ExecIdle
    /\ RtIdle
    /\ SessIdle
    /\ CcIdle
    /\ EnvIdle
    /\ PgIdle

CallSeq == CallWith(MaxDispatch, SeqStates, SeqEvents, SeqRuntimes)

NextSeq ==
    \/ CallSeq
    \/ ExecCheck
    \/ ExecCopy
    \/ ExecVroot
    \/ ExecInitStorage
    \/ ExecEnv
    \/ ExecMain
    \/ ExecCleanupEnv
    \/ ExecCloseStorage
    \/ ExecRelease
    \/ FinalizeTmp

SpecSeq == InitSeq /\ [][NextSeq]_vars

\* ------------------------------------------------------------ ConsistencyChecker.run
\* One run of the checker, its loop taken one check at a time, on inputs that make
\* every branch of the four checks happen.
Other == <<"o", "t", "h", "e", "r">>
MyDb == <<"m", "y", "-", "d", "b">>
Replicas == <<"r", "e", "p", "l", "i", "c", "a", "s">>
Extra == <<"x">>

\* config values: the runtime type and the value
ConfigValue(type, repr) == [type |-> type, repr |-> repr]
ConfigValues ==
    {ConfigValue("str", "'3'"), ConfigValue("int", "3"), ConfigValue("float", "3.0"),
     ConfigValue("bool", "True")}
\* state.config
Configs ==
    {<<>>}
    \cup {<<<<Replicas, v>>>> : v \in ConfigValues}
    \cup {<<<<Replicas, v>>, <<Extra, w>>>> : v \in ConfigValues, w \in ConfigValues}
\* the "type" of a config.yaml option; "" when the option has none
DeclaredTypes == {"string", "int", "integer", "number", "boolean", "attrs", "secret", ""}
Option(type) == [type |-> type]
\* charm_spec.config: no config at all, or the options
Schemas ==
    {None, Some(<<>>)}
    \cup {Some(<<<<Replicas, Option(tn)>>>>) : tn \in DeclaredTypes}
    \cup {Some(<<<<Replicas, Option(tn)>>, <<Extra, Option("string")>>>>) : tn \in DeclaredTypes}

EvOtherReady == Event(Other \o PebbleReadySuffix, None, Some(Container(Other)), None)
EvMyDbReady == Event(MyDb \o PebbleReadySuffix, None, Some(Container(MyDb)), None)
EvCacheReadyNoContainer == Event(Cache \o PebbleReadySuffix, None, None, None)
EvCacheReadyOtherContainer == Event(Cache \o PebbleReadySuffix, None, Some(Container(Other)), None)
WorkloadEvents ==
    {EvCacheReady, EvOtherReady, EvMyDbReady, EvCacheReadyNoContainer, EvCacheReadyOtherContainer}
ContainerSets == SUBSET {Cache, Other, MyDb}
JujuVersions ==
    {<<"2", ".", "9">>, <<"2", ".", "9", ".", "4", "2">>, <<"3">>, JujuVersion,
     <<"3", ".", "1">>, <<"1", "0", ".", "0">>}

\* ConsistencyChecker(state, event, charm_spec, juju_version), and os.environ
Checker(config, schema, event, state_containers, meta_containers, secrets, juju_version, environ) ==
    [state |-> [State(<<>>, <<>>) EXCEPT !.config = config, !.containers = state_containers,
                                         !.secrets = secrets],
     event |-> event,
     charm_spec |-> [CharmSpec(FALSE) EXCEPT !.config = schema,
                                             !.meta.containers = meta_containers],
     juju_version |-> juju_version,
     environ |-> environ]
CheckerInputs ==
    {Checker(cfg, sch, ev, {Cache}, {Cache}, <<>>, JujuVersion, e) :
        cfg \in Configs, sch \in Schemas, ev \in {EvStart, EvDbChangedNoRelation}, e \in Environs}
    \cup {Checker(<<>>, None, ev, sc, mc, <<>>, JujuVersion, e) :
        ev \in WorkloadEvents \cup {EvStart}, sc \in ContainerSets, mc \in ContainerSets,
        e \in Environs}
    \cup {Checker(<<>>, None, ev, {Cache}, {Cache}, sec, v, e) :
        ev \in {EvStart, EvSecretChanged, EvDbChanged}, sec \in {<<>>, <<SecretS>>},
        v \in JujuVersions, e \in Environs}

\* the tuple of checks run loops over
Checks == <<"_check_containers", "_check_config", "_check_event", "_check_secrets">>
\* check(): what the check returns or raises
CheckResult(check, in) ==
    CASE check = "_check_containers" -> _check_containers(in.state, in.event, in.charm_spec)
      [] check = "_check_config" -> _check_config(in.state, in.charm_spec)
      [] check = "_check_event" -> _check_event(in.event)
      [] check = "_check_secrets" -> _check_secrets(in.state, in.event, in.juju_version)

\* a loop that stops at the first check that found something
NextCheckShortCircuit(i, errors) == IF errors # <<>> THEN Len(Checks) + 1 ELSE i + 1
\* the for loop: on to the next check, whatever this one found
NextCheck(i, errors) == i + 1

InitCC ==
    /\ ExecIdle
    /\ RtIdle
    /\ SessIdle
    /\ cc_pc = "start"
    /\ cc_in \in {Some(in) : in \in CheckerInputs}
    /\ cc_i = 0
    /\ cc_errors = <<>>
    /\ cc_ran = <<>>
    /\ cc_exc = None
    /\ EnvIdle
    /\ PgIdle

\* if os.getenv("SCENARIO_SKIP_CONSISTENCY_CHECKS"): return
CcStart ==
    /\ cc_pc = "start"
    /\ IF SkipChecks(Val(cc_in).environ)
       THEN cc_pc' = "returned" /\ UNCHANGED cc_i
       ELSE cc_pc' = "loop" /\ cc_i' = 1
    /\ UNCHANGED <<cc_in, cc_errors, cc_ran, cc_exc, execVars, rtVars, sessVars, envVars, pgVars>>

\* one turn of the loop: try: results = check() ... errors.extend(results)
CcCheck ==
    /\ cc_pc = "loop"
    /\ cc_i \in DOMAIN Checks
    /\ LET check == Checks[cc_i]
           r == CheckResult(check, Val(cc_in))
           h == IF IsNone(r.raised) THEN [errors |-> r.errors, raise |-> None]
                ELSE ExceptClause(check, Val(r.raised))
       IN /\ cc_ran' = Append(cc_ran, [check |-> check, result |-> r])
          /\ IF ~IsNone(h.raise)
             THEN /\ cc_pc' = "raised"
                  /\ cc_exc' = Some(Error(Val(h.raise), None, <<>>))
                  /\ UNCHANGED <<cc_i, cc_errors>>
             ELSE /\ cc_errors' = cc_errors \o h.errors
                  /\ cc_i' = NextCheck(cc_i, cc_errors')
                  /\ UNCHANGED <<cc_pc, cc_exc>>
    /\ UNCHANGED <<cc_in, execVars, rtVars, sessVars, envVars, pgVars>>

\* if errors: raise InconsistentScenarioError(errors)
CcEnd ==
    /\ cc_pc = "loop"
    /\ cc_i \notin DOMAIN Checks
    /\ IF cc_errors # <<>>
       THEN /\ cc_pc' = "raised"
            /\ cc_exc' = Some(Error("InconsistentScenarioError", None, cc_errors))
       ELSE cc_pc' = "returned" /\ UNCHANGED cc_exc
    /\ UNCHANGED <<cc_in, cc_i, cc_errors, cc_ran, execVars, rtVars, sessVars, envVars, pgVars>>

NextCC == CcStart \/ CcCheck \/ CcEnd

SpecCC == InitCC /\ [][NextCC]_vars

\* ------------------------------------------------------------ sessions
\* Sessions for one charm type: what each exec hands the entry point (Runtime._wrap),
\* the events CharmBase.__init__ defines on the type of the charm's `on`, and the
\* observers of each session's framework.
\* an events class: its base class (0: none) and the attributes set on the class itself
OnClass(parent, attrs) == [parent |-> parent, attrs |-> attrs]
\* class CharmEvents(EventsBase): the lifecycle events
CharmEvents == OnClass(0, {<<"install">>, <<"start">>, <<"stop">>, <<"update_status">>,
                           <<"config_changed">>, <<"upgrade_charm">>,
                           <<"pre_series_upgrade">>, <<"post_series_upgrade">>,
                           <<"leader_elected">>, <<"leader_settings_changed">>})
\* the caller's charm type: class CharmBase with on = CharmEvents(), CharmEvents being class 1
CharmType == [name |-> "CharmBase", on_class |-> 1]

\* getattr(cls, kind) finds the attribute on the class or on one of its bases
RECURSIVE HasAttr(_, _, _)
HasAttr(classes, c, kind) ==
    c # 0 /\ (kind \in classes[c].attrs \/ HasAttr(classes, classes[c].parent, kind))

\* Runtime._wrap returning the charm type it was given
_wrap_same_type(classes, charm_type) == [classes |-> classes, charm_type |-> charm_type]
\* a _wrap whose WrappedCharm keeps the `on` object of the charm type it subclasses
_wrap_shared_events(classes, charm_type) ==
    [classes |-> classes,
     charm_type |-> [name |-> charm_type.name, on_class |-> charm_type.on_class]]
\* Runtime._wrap(charm_type): WrappedCharm, whose `on` is an instance of a new
\* subclass of charm_type.on.__class__
_wrap(classes, charm_type) ==
    [classes |-> Append(classes, OnClass(charm_type.on_class, {})),
     charm_type |-> [name |-> charm_type.name, on_class |-> Len(classes) + 1]]

\* EventsBase.define_event(kind, event_type) on the class c: the attribute must be new
define_event(classes, c, kind) ==
    IF HasAttr(classes, c, kind) THEN [classes |-> classes, error |-> Some("RuntimeError")]
    ELSE [classes |-> [classes EXCEPT ![c].attrs = @ \cup {kind}], error |-> None]

RelationEventKinds(relation_name) ==
    <<<<relation_name, "relation_joined">>, <<relation_name, "relation_changed">>,
      <<relation_name, "relation_departed">>, <<relation_name, "relation_broken">>>>
RECURSIVE DefineEvents(_, _, _)
DefineEvents(classes, c, kinds) ==
    IF kinds = <<>> THEN [classes |-> classes, error |-> None]
    ELSE LET d == define_event(classes, c, kinds[1])
         IN IF ~IsNone(d.error) THEN d ELSE DefineEvents(d.classes, c, Tail(kinds))
RECURSIVE RelationKinds(_)
RelationKinds(relations) ==
    IF relations = <<>> THEN <<>>
    ELSE RelationEventKinds(relations[1]) \o RelationKinds(Tail(relations))
\* CharmBase.__init__(framework, key, metadata): self.on.define_event for every relation
CharmBaseInit(classes, charm_type, relations) ==
    DefineEvents(classes, charm_type.on_class, RelationKinds(relations))

\* the relations of the charm metadata
MetadataRelations == <<Db>>
\* the relation data the sessions are given
RelationData == {"a", "b", "c"}

InitSess ==
    /\ ExecIdle
    /\ RtIdle
    /\ CcIdle
    /\ EnvIdle
    /\ PgIdle
    /\ on_classes = <<CharmEvents>>
    /\ sess = <<>>

\* a session begins: the entry point is handed _wrap(charm_type) and builds the
\* charm on a framework of its own
SessBegin ==
    /\ Len(sess) < MaxSessions
    /\ LET w == _wrap(on_classes, CharmType)
           c == CharmBaseInit(w.classes, w.charm_type, MetadataRelations)
       IN /\ on_classes' = c.classes
          /\ sess' = Append(sess, [charm_type |-> w.charm_type,
                                   failed |-> c.error,
                                   observers |-> <<>>,
                                   emitted |-> <<>>])
    /\ UNCHANGED <<execVars, rtVars, ccVars, envVars, pgVars>>

\* framework.observe(charm.on.db_relation_changed, observer) in session s
SessObserve(s) ==
    /\ IsNone(sess[s].failed)
    /\ Len(sess[s].observers) < MaxObservers
    /\ HasAttr(on_classes, sess[s].charm_type.on_class, <<Db, "relation_changed">>)
    /\ sess' = [sess EXCEPT ![s].observers =
                    Append(@, [since |-> Len(sess[s].emitted), changes |-> <<>>])]
    /\ UNCHANGED <<on_classes, execVars, rtVars, ccVars, envVars, pgVars>>

\* the firings session s hands the observers of session t
Delivered(s, t, firing) == IF s = t THEN <<firing>> ELSE <<>>

\* charm.on.db_relation_changed.emit(relation) in session s with relation data d
SessEmit(s, d) ==
    /\ IsNone(sess[s].failed)
    /\ Len(sess[s].emitted) < MaxEmits
    /\ LET firing == [session |-> s, data |-> d]
       IN sess' = [t \in DOMAIN sess |->
                    [sess[t] EXCEPT
                        !.emitted = IF t = s THEN Append(@, firing) ELSE @,
                        !.observers = [o \in DOMAIN @ |->
                            [@[o] EXCEPT !.changes = @ \o Delivered(s, t, firing)]]]]
    /\ UNCHANGED <<on_classes, execVars, rtVars, ccVars, envVars, pgVars>>

NextSess ==
    \/ SessBegin
    \/ \E s \in DOMAIN sess : SessObserve(s)
    \/ \E s \in DOMAIN sess, d \in RelationData : SessEmit(s, d)

SpecSess == InitSess /\ [][NextSess]_vars

\* ------------------------------------------------------------ the event environment
\* One call of Runtime._get_event_env, over events with and without each reference,
\* action events, charm specs with and without metadata, and absolute and relative
\* charm roots.
Label == <<"l", "b">>
SecretLabelled == Secret(<<"s", "2">>, Some(Label))
EvSecretLabelled ==
    Event(SecretPrefix \o <<"r", "e", "m", "o", "v", "e">>, None, None, Some(SecretLabelled))
\* an event built with every reference at once
EvAllReferences ==
    Event(Db \o RelationJoinedSuffix, Some(Relation(Db, 7)), Some(Container(MyDb)), Some(SecretS))
EvDoItAction == Event(<<"d", "o", "_", "i", "t">> \o ActionSuffix, None, None, None)
EvBareAction == Event(ActionSuffix, None, None, None)
EvActionInside == Event(<<"d", "o">> \o ActionSuffix \o <<"_", "x">>, None, None, None)
EvDashAction == Event(<<"d", "o", "-", "a", "c", "t", "i", "o", "n">>, None, None, None)
EnvEvents ==
    {EvStart, EvDbChanged, EvCacheReady, EvMyDbReady, EvSecretChanged, EvSecretLabelled,
     EvAllReferences, EvDoItAction, EvBareAction, EvActionInside, EvDashAction}
\* charm specs: metadata with a name, empty metadata, metadata with containers and no name
EnvCharmSpecs ==
    {CharmSpec(FALSE),
     [CharmSpec(FALSE) EXCEPT !.meta = [name |-> Some(Db), containers |-> {}]],
     [CharmSpec(FALSE) EXCEPT !.meta = [name |-> None, containers |-> {}]],
     [CharmSpec(FALSE) EXCEPT !.meta = [name |-> None, containers |-> {Cache}]]}
RelativePath == <<"r">>
EnvRoots == {CustomPath, TmpPath, RelativePath}
EnvStates ==
    {State(<<>>, <<>>),
     [State(<<DeferredA2>>, <<>>) EXCEPT !.model = [name |-> <<"n">>, uuid |-> <<"v">>]]}
EnvVersions == {JujuVersion, <<"2", ".", "9">>}

InitEnv ==
    /\ ExecIdle
    /\ RtIdle
    /\ SessIdle
    /\ CcIdle
    /\ env_pc = "start"
    /\ env_in \in {Some([charm_spec |-> cs, juju_version |-> v, state |-> s, event |-> e,
                          charm_root |-> r]) :
                    cs \in EnvCharmSpecs, v \in EnvVersions, s \in EnvStates,
                    e \in EnvEvents, r \in EnvRoots}
    /\ env_out = None
    /\ PgIdle

\* env = self._get_event_env(state=state, event=event, charm_root=temporary_charm_root)
EnvBuild ==
    /\ env_pc = "start"
    /\ LET in == Val(env_in)
           r == _get_event_env(in.state, in.event, in.charm_root, in.charm_spec, in.juju_version)
       IN /\ env_pc' = IF IsNone(r.raised) THEN "built" ELSE "raised"
          /\ env_out' = r.value
    /\ UNCHANGED <<env_in, execVars, rtVars, sessVars, ccVars, pgVars>>

NextEnv == EnvBuild

SpecEnv == InitEnv /\ [][NextEnv]_vars

\* ------------------------------------------------------------ trigger
\* trigger(state, event, charm_type, meta, actions, config, charm_root): the charm
\* spec it builds, and the exec it starts.
\* the documents next to the charm's source: what _CharmSpec.autoload reads
FileMeta == [name |-> Some(<<"f", "i", "l", "e">>), containers |-> {Cache}]
FileConfig == Some(<<<<Replicas, Option("string")>>>>)
FileActions == Some(<<"file-actions">>)
\* _CharmSpec.autoload(charm_type)
autoload(charm_type) ==
    [charm_type |-> charm_type, meta |-> FileMeta, config |-> FileConfig,
     actions |-> FileActions, is_autoloaded |-> TRUE]
\* str(charm_type.__name__)
TypeName(charm_type) ==
    IF charm_type = "MyCharm" THEN <<"M", "y", "C", "h", "a", "r", "m">> ELSE <<"C">>
\* a trigger that loads every document that was not provided
trigger_each_document(charm_type, meta, actions, config) ==
    LET loaded == autoload(charm_type)
    IN [charm_type |-> charm_type,
        meta |-> IF Truthy(meta) THEN Val(meta) ELSE loaded.meta,
        config |-> IF Truthy(config) THEN config ELSE loaded.config,
        actions |-> IF Truthy(actions) THEN actions ELSE loaded.actions,
        is_autoloaded |-> ~(Truthy(meta) \/ Truthy(actions) \/ Truthy(config))]
\* the charm spec trigger gives the Runtime
trigger(charm_type, meta, actions, config) ==
    IF ~(Truthy(meta) \/ Truthy(actions) \/ Truthy(config)) THEN autoload(charm_type)
    ELSE [charm_type |-> charm_type,
          meta |-> IF Truthy(meta) THEN Val(meta)
                   ELSE [name |-> Some(TypeName(charm_type)), containers |-> {}],
          config |-> config, actions |-> actions, is_autoloaded |-> FALSE]

\* the arguments of trigger
GivenMeta == CharmSpec(FALSE).meta
TriggerMetas == {None, Some(GivenMeta), Some([name |-> None, containers |-> {}])}
TriggerConfigs == {None, Some(<<<<Extra, Option("int")>>>>)}
TriggerActions == {None, Some(<<"given-actions">>)}
TriggerStates == {State(<<>>, <<>>), [State(<<>>, <<>>) EXCEPT !.containers = {}]}
TriggerEvents == {EvStart, EvCacheReady}
TriggerRoots == {None, Some(CustomPath)}

InitTrigger ==
    /\ ExecIdle
    /\ RtIdle
    /\ SessIdle
    /\ CcIdle
    /\ EnvIdle
    /\ PgIdle

\* the caller calls trigger, which builds the spec and the Runtime and calls exec
Trigger ==
    /\ pc \in {"idle", "done"}
    /\ execs < MaxTrigger
    /\ \E state \in TriggerStates, event \in TriggerEvents, meta \in TriggerMetas,
          actions \in TriggerActions, config \in TriggerConfigs, root \in TriggerRoots :
            /\ call' = [charm_spec |-> trigger("MyCharm", meta, actions, config),
                        charm_root |-> root, juju_version |-> <<"3", ".", "0">>,
                        event |-> event]
            /\ heap' = [input |-> Some(state), output |-> None]
            /\ pre' = Some([input |-> state, os_environ |-> os_environ,
                            proc_environ |-> proc_environ, custom_root |-> custom_root,
                            trigger |-> [meta |-> meta, actions |-> actions,
                                         config |-> config]])
    /\ execs' = execs + 1
    /\ pc' = "check"
    /\ trace' = <<>>
    /\ tmp_root' = NoDir
    /\ env' = None
    /\ outcome' = NoOutcome
    /\ charm' = [invocations |-> 0, raised |-> None]
    /\ UNCHANGED <<os_environ, proc_environ, custom_root, rtVars, sessVars, ccVars, envVars, pgVars>>

NextTrigger ==
    \/ Trigger
    \/ ExecCheck
    \/ ExecCopy
    \/ ExecVroot
    \/ ExecInitStorage
    \/ ExecEnv
    \/ ExecMain
    \/ ExecCleanupEnv
    \/ ExecCloseStorage
    \/ ExecRelease
    \/ FinalizeTmp

SpecTrigger == InitTrigger /\ [][NextTrigger]_vars

\* ------------------------------------------------------------ PostgreSQLClient
\* The requires side of the pgsql interface: one client handling relation-changed
\* and relation-broken events, the unit's own data and the remote unit's data drawn
\* anew for every event.
\* dict.get(key): the value, or None
Get(d, k) == IF k \in DOMAIN d THEN Some(d[k]) ELSE None
\* dict.get(key, default)
GetOr(d, k, default) == IF k \in DOMAIN d THEN d[k] ELSE default
\* s.split(',')
RECURSIVE SplitComma(_)
SplitComma(s) ==
    LET commas == {i \in 1..Len(s) : s[i] = ","}
    IN IF commas = {} THEN <<s>>
       ELSE LET c == CHOOSE i \in commas : \A j \in commas : i <= j
            IN <<SubSeq(s, 1, c - 1)>> \o SplitComma(SubSeq(s, c + 1, Len(s)))
\* part.strip()
RECURSIVE Strip(_)
Strip(s) ==
    IF s # <<>> /\ Head(s) = " " THEN Strip(Tail(s))
    ELSE IF s # <<>> /\ s[Len(s)] = " " THEN Strip(SubSeq(s, 1, Len(s) - 1))
    ELSE s
\* comma_separated_list(s)
comma_separated_list(s) ==
    LET parts == SplitComma(s)
    IN SelectSeq([i \in DOMAIN parts |-> Strip(parts[i])], LAMBDA part : part # <<>>)
\* PostgreSQLClient._is_relation_ready(my_data, remote_data)
_is_relation_ready(my_data, remote_data) ==
    LET allowed_subnets == Get(remote_data, "allowed-subnets")
        requested_database == Get(my_data, "database")
        requested_roles == Get(my_data, "roles")
        requested_extensions == Get(my_data, "extensions")
    IN IF /\ ~IsNone(allowed_subnets)
          /\ ~(Range(comma_separated_list(GetOr(my_data, "egress-subnets", <<>>)))
                  \subseteq Range(comma_separated_list(Val(allowed_subnets))))
       THEN FALSE
       ELSE IF /\ ~IsNone(requested_database)
               /\ GetOr(remote_data, "database", <<>>) # Val(requested_database)
       THEN FALSE
       ELSE IF /\ ~IsNone(requested_roles)
               /\ GetOr(remote_data, "roles", <<>>) # Val(requested_roles)
       THEN FALSE
       ELSE IF /\ ~IsNone(requested_extensions)
               /\ GetOr(remote_data, "extensions", <<>>) # Val(requested_extensions)
       THEN FALSE
       ELSE TRUE
\* a handler that emits a new master without storing it
_on_relation_changed_no_store(stored_master, my_data, remote_data) ==
    LET master == Get(remote_data, "master")
    IN IF ~_is_relation_ready(my_data, remote_data)
       THEN [master |-> stored_master, emitted |-> <<>>]
       ELSE IF stored_master # master
       THEN [master |-> stored_master, emitted |-> <<master>>]
       ELSE [master |-> stored_master, emitted |-> <<>>]
\* PostgreSQLClient._on_relation_changed(event): the new _stored.master and the
\* payloads emitted on master_changed
_on_relation_changed(stored_master, my_data, remote_data) ==
    LET master == Get(remote_data, "master")
    IN IF ~_is_relation_ready(my_data, remote_data)
       THEN [master |-> stored_master, emitted |-> <<>>]
       ELSE IF stored_master # master
       THEN [master |-> master, emitted |-> <<master>>]
       ELSE [master |-> stored_master, emitted |-> <<>>]

\* a dict with the key k when the optional value is there
Entry(k, o) == IF IsNone(o) THEN <<>> ELSE k :> Val(o)
\* relation.data[self._charm.model.unit]
PgMyData ==
    {Entry("egress-subnets", e) @@ Entry("database", d) @@ Entry("roles", r)
        @@ Entry("extensions", x) :
        e \in {None, Some(<<"a", ",", " ", "b">>)}, d \in {None, Some(<<"d">>)},
        r \in {None, Some(<<"r">>)}, x \in {None, Some(<<"e">>)}}
\* relation.data[event.unit]
PgRemoteData ==
    {Entry("allowed-subnets", a) @@ Entry("database", d) @@ Entry("roles", r)
        @@ Entry("extensions", x) @@ Entry("master", m) :
        a \in {None, Some(<<"b", ",", "a", ",">>), Some(<<"a">>)},
        d \in {None, Some(<<"d">>), Some(<<"x">>)},
        r \in {None, Some(<<"r">>)}, x \in {None, Some(<<"e">>)},
        m \in {None, Some(<<"m", "1">>), Some(<<"m", "2">>)}}

InitPg ==
    /\ ExecIdle
    /\ RtIdle
    /\ SessIdle
    /\ CcIdle
    /\ EnvIdle
    /\ PgIdle

\* the framework delivers a relation-changed event to _on_relation_changed
PgRelationChanged ==
    /\ Len(pg_history) < MaxPgEvents
    /\ \E my_data \in PgMyData, remote_data \in PgRemoteData :
        LET r == _on_relation_changed(pg_stored, my_data, remote_data)
        IN /\ pg_stored' = r.master
           /\ pg_emitted' = pg_emitted \o r.emitted
           /\ pg_history' = Append(pg_history,
                [kind |-> "changed",
                 master |-> Get(remote_data, "master"),
                 ready |-> _is_relation_ready(my_data, remote_data),
                 before |-> pg_stored,
                 emits_before |-> Len(pg_emitted)])
    /\ UNCHANGED <<execVars, rtVars, sessVars, ccVars, envVars>>

\* the framework delivers a relation-broken event to _on_relation_broken: pass
PgRelationBroken ==
    /\ Len(pg_history) < MaxPgEvents
    /\ pg_history' = Append(pg_history,
            [kind |-> "broken", master |-> None, ready |-> FALSE, before |-> pg_stored,
             emits_before |-> Len(pg_emitted)])
    /\ UNCHANGED <<pg_stored, pg_emitted, execVars, rtVars, sessVars, ccVars, envVars>>

NextPg ==
    \/ PgRelationChanged
    \/ PgRelationBroken

SpecPg == InitPg /\ [][NextPg]_vars

\* ------------------------------------------------------------ properties
Done == pc = "done"
ReturnedState == Done /\ outcome.kind = "returned"
RaisedType(type) == Done /\ outcome.kind = "raised" /\ Val(outcome.error).type = type
SkipFlagSet == "SCENARIO_SKIP_CONSISTENCY_CHECKS" \in DOMAIN Val(pre).os_environ
CheckerErrors ==
    ConsistencyCheckerRun(Val(pre).input, call.event, call.charm_spec, call.juju_version,
                          Val(pre).os_environ)
Did(step) == \E i \in DOMAIN trace : trace[i] = step

\* C1: once exec has returned or raised UncaughtCharmError, no key of the env it
\* applied is left in the process environment.
C1_EnvAbsentAfterExec ==
    (Done /\ ~IsNone(env) /\ (ReturnedState \/ RaisedType("UncaughtCharmError")))
        => \A k \in DOMAIN Val(env) : k \notin DOMAIN os_environ /\ k \notin DOMAIN proc_environ

\* C2: with no charm_root supplied, the private temporary directory is gone once
\* exec has exited, on every exit path.
C2_TmpRootGoneAfterExec ==
    (Done /\ IsNone(call.charm_root)) => ~tmp_root.exists

\* C3: the State the caller passed to exec is, at every step and after every
\* outcome, equal to what it was when exec was called.
C3_InputStateNeverMutated ==
    pc # "idle" => heap.input = Some(Val(pre).input)
C3_Witness ==
    /\ ReturnedState
    /\ Val(outcome.state) # Val(pre).input
    /\ Val(outcome.state).unit_status = "active"

\* C4: exec ends with exactly one of a returned state and a raised error; a returned
\* state is the clone drained after a charm invocation that did not raise, and a
\* raise hands the caller no state.
C4_OneOutcome ==
    Done =>
        /\ outcome.kind \in {"returned", "raised"}
        /\ (outcome.kind = "returned") = ~IsNone(outcome.state)
        /\ (outcome.kind = "raised") = ~IsNone(outcome.error)
        /\ IsNone(outcome.state) # IsNone(outcome.error)
        /\ ~IsNone(outcome.state) =>
                /\ charm.invocations = 1 /\ IsNone(charm.raised)
                /\ Did("close_storage")
                /\ outcome.state = heap.output
C4_Witness ==
    /\ RaisedType("UncaughtCharmError")
    /\ ~IsNone(heap.output)
    /\ IsNone(outcome.state)

\* C5: when the consistency check finds errors, exec raises InconsistentScenarioError
\* and at that moment nothing has been done: no root allocated or written, no store
\* primed, no environment variable set, the charm not invoked.
C5_InconsistentBeforeSideEffects ==
    /\ (pc \notin {"idle", "check"} /\ CheckerErrors # <<>>) => RaisedType("InconsistentScenarioError")
    /\ RaisedType("InconsistentScenarioError") =>
            /\ trace = <<"check">>
            /\ os_environ = Val(pre).os_environ
            /\ proc_environ = Val(pre).proc_environ
            /\ custom_root = Val(pre).custom_root
            /\ ~tmp_root.exists
            /\ IsNone(env)
            /\ IsNone(heap.output)
            /\ charm.invocations = 0
C5_Witness ==
    /\ RaisedType("InconsistentScenarioError")
    /\ ~IsNone(call.charm_root)
    /\ metadata_files_present(custom_root)

\* the event carries a relation whose normalized endpoint is a prefix of its name
RelationMatches(event) ==
    /\ ~IsNone(event.relation)
    /\ StartsWith(event.name, normalize_name(Val(event.relation).endpoint))

\* C6 as claimed: for every relation-lifecycle event, exec raises
\* InconsistentScenarioError unless the event carries a matching relation.
C6_Original ==
    (Done /\ is_relation_event(call.event.name) /\ ~RelationMatches(call.event))
        => RaisedType("InconsistentScenarioError")
\* C6: unless the opt-out flag SCENARIO_SKIP_CONSISTENCY_CHECKS is set, exec raises
\* InconsistentScenarioError for every relation-lifecycle event that carries no
\* relation or a relation whose normalized endpoint does not prefix the event name.
C6_RelationEventNeedsRelation ==
    (Done /\ ~SkipFlagSet /\ is_relation_event(call.event.name) /\ ~RelationMatches(call.event))
        => RaisedType("InconsistentScenarioError")
C6_Witness ==
    /\ RaisedType("InconsistentScenarioError")
    /\ call.event = EvDbChangedOtherRelation

\* caller-supplied metadata and a caller-supplied root holding a metadata file
DirtyRequest ==
    /\ ~call.charm_spec.is_autoloaded
    /\ ~IsNone(call.charm_root)
    /\ metadata_files_present(Val(pre).custom_root)
\* exec raised DirtyVirtualCharmRootError having set no variable, primed no store,
\* invoked no charm and written no file
DirtyRaisedCleanly ==
    /\ RaisedType("DirtyVirtualCharmRootError")
    /\ os_environ = Val(pre).os_environ
    /\ proc_environ = Val(pre).proc_environ
    /\ IsNone(env)
    /\ custom_root = Val(pre).custom_root
    /\ charm.invocations = 0
    /\ ~Did("init_storage") /\ ~Did("env") /\ ~Did("main")

\* C7 as claimed: every exec with caller-supplied metadata and a root that already
\* holds a metadata file raises DirtyVirtualCharmRootError, nothing else done.
C7_Original ==
    (Done /\ DirtyRequest) => DirtyRaisedCleanly
\* C7: given caller-supplied metadata, a caller-supplied root that already holds a
\* metadata file, and a request that passes the consistency check, exec raises
\* DirtyVirtualCharmRootError before any variable is set, before the store is primed
\* and before the charm is invoked, and overwrites none of the files.
C7_DirtyRootRaisesFirst ==
    (Done /\ DirtyRequest /\ CheckerErrors = <<>>) => DirtyRaisedCleanly
C7_Witness ==
    /\ DirtyRaisedCleanly
    /\ DirtyRequest
    /\ custom_root.files["metadata.yaml"] = UserDocument

\* C8 as claimed: priming from N deferred events and draining gives back N deferred
\* events with the same handle path, owner, observer and snapshot payload.
C8_DeferredRoundTrip ==
    rt_pc = "drained" => BagOfSeq(Val(rt_out).deferred) = BagOfSeq(rt_state.deferred)

\* C9 as claimed: priming from M stored-state entries and draining gives back M
\* entries with the same owner path, type name, instance name and content.
C9_StoredStateRoundTrip ==
    rt_pc = "drained" => BagOfSeq(Val(rt_out).stored_state) = BagOfSeq(rt_state.stored_state)

\* C10: a NoObserverError of the charm entry point leaves exec as it is, any other
\* exception leaves it as an UncaughtCharmError whose cause is that exception, and
\* in both cases the caller gets no state.
C10_CharmErrorPropagation ==
    (Done /\ ~IsNone(charm.raised)) =>
        /\ outcome.kind = "raised"
        /\ IsNone(outcome.state)
        /\ IF Val(charm.raised) = "NoObserverError"
           THEN Val(outcome.error).type = "NoObserverError" /\ IsNone(Val(outcome.error).cause)
           ELSE /\ Val(outcome.error).type = "UncaughtCharmError"
                /\ Val(outcome.error).cause = charm.raised
C10_Witness ==
    /\ RaisedType("NoObserverError")
    /\ charm.raised = Some("NoObserverError")
    /\ charm.invocations = 1

ReferenceKeys ==
    [relation |-> {"JUJU_RELATION", "JUJU_RELATION_ID"},
     container |-> {"JUJU_WORKLOAD_NAME"},
     secret |-> {"JUJU_SECRET_ID", "JUJU_SECRET_LABEL"}]
\* the environment the charm entry point runs in
CharmSees(key) == key \in DOMAIN os_environ \/ key \in DOMAIN proc_environ

\* C12 as claimed: when the charm entry point is invoked in dispatch k, each of
\* JUJU_RELATION, JUJU_RELATION_ID, JUJU_WORKLOAD_NAME, JUJU_SECRET_ID and
\* JUJU_SECRET_LABEL is visible only if event k carries the corresponding reference.
C12_NoStaleEnvironment ==
    pc = "main" =>
        \A ref \in DOMAIN ReferenceKeys : \A key \in ReferenceKeys[ref] :
            CharmSees(key) => ~IsNone(call.event[ref])

\* ---- the checker run
CcEnded == cc_pc \in {"returned", "raised"}
CcSkip == "SCENARIO_SKIP_CONSISTENCY_CHECKS" \in DOMAIN Val(cc_in).environ
CcRaisedInconsistent ==
    cc_pc = "raised" /\ cc_exc = Some(Error("InconsistentScenarioError", None, cc_errors))
\* what a check, evaluated on its own, contributes to the errors of run
DiagnosticsOf(check) == CheckDiagnostics(check, CheckResult(check, Val(cc_in)))
CcRan(check) == \E i \in DOMAIN cc_ran : cc_ran[i].check = check
CcResult(check) == cc_ran[CHOOSE i \in DOMAIN cc_ran : cc_ran[i].check = check].result
InErrors(d) == \E j \in DOMAIN cc_errors : cc_errors[j] = d
\* every check was evaluated, in order, the error carries what each of them
\* contributes, and run raises exactly when some check contributes
AllChecksAggregated ==
    /\ [i \in DOMAIN cc_ran |-> cc_ran[i].check] = Checks
    /\ cc_errors = DiagnosticsOf(Checks[1]) \o DiagnosticsOf(Checks[2])
                   \o DiagnosticsOf(Checks[3]) \o DiagnosticsOf(Checks[4])
    /\ (cc_pc = "raised") = (\E i \in DOMAIN Checks : DiagnosticsOf(Checks[i]) # <<>>)
    /\ cc_pc = "raised" => CcRaisedInconsistent

\* C13 as claimed: every run evaluates all four checks and raises, with the
\* diagnostics of every check, exactly when some check produced one.
C13_Original ==
    CcEnded => AllChecksAggregated
\* C13: unless the opt-out flag is set, run evaluates all four checks whatever the
\* others found, the one InconsistentScenarioError it raises carries the diagnostics
\* of every check, and it raises if and only if some check produced a diagnostic.
C13_AllChecksRunAndAggregate ==
    (CcEnded /\ ~CcSkip) => AllChecksAggregated
C13_Witness ==
    /\ CcRaisedInconsistent
    /\ DiagnosticsOf("_check_config") # <<>>
    /\ DiagnosticsOf("_check_event") # <<>>
    /\ Len(cc_errors) >= 3

\* C14: a check that raises an exception leaves exactly one diagnostic, for that
\* check, in the errors of run; the checks after it are still evaluated; and the only
\* exception that leaves run is InconsistentScenarioError.
C14_UnexpectedErrorBecomesDiagnostic ==
    /\ cc_pc = "raised" => Val(cc_exc).type = "InconsistentScenarioError"
    /\ \A i \in DOMAIN cc_ran :
        ~IsNone(cc_ran[i].result.raised) =>
            /\ Cardinality({j \in DOMAIN cc_errors :
                    /\ cc_errors[j][1] = "unexpected error processing check"
                    /\ cc_errors[j][2] = cc_ran[i].check}) = 1
            /\ CcEnded => (Len(cc_ran) = Len(Checks) /\ CcRaisedInconsistent)
C14_Witness ==
    /\ CcRaisedInconsistent
    /\ ~IsNone(CcResult("_check_config").raised)
    /\ ~IsNone(CcResult("_check_event").raised)
    /\ CcRan("_check_secrets")

\* the diagnostics of the config check, each naming a key
ConfigDiagnostics ==
    {"config option not in config.yaml", "config option has no type",
     "config option of wrong type"}
\* the runtime type of each declared kind
DeclaredKind == [string |-> "str", integer |-> "int", number |-> "float", boolean |-> "bool"]
CcConfig == Val(cc_in).state.config
CcSchema == IF IsNone(Val(cc_in).charm_spec.config) THEN <<>> ELSE Val(Val(cc_in).charm_spec.config)

\* C15 as claimed: for every key of state.config declared with one of the four
\* kinds, a run that evaluates the checks accepts the value exactly when its runtime
\* type is the declared kind, and otherwise raises InconsistentScenarioError with a
\* diagnostic naming the key, the expected type and the actual type.
C15_ConfigTypeExact ==
    (CcEnded /\ ~CcSkip) =>
        \A i \in DOMAIN CcConfig :
            LET key == CcConfig[i][1]
                value == CcConfig[i][2]
                opt == LookupOpt(CcSchema, key)
            IN (~IsNone(opt) /\ Val(opt).type \in DOMAIN DeclaredKind) =>
                IF value.type = DeclaredKind[Val(opt).type]
                THEN \A j \in DOMAIN cc_errors :
                        ~(cc_errors[j][1] \in ConfigDiagnostics /\ cc_errors[j][2] = key)
                ELSE /\ CcRaisedInconsistent
                     /\ InErrors(<<"config option of wrong type", key, Val(opt).type, value.type>>)

\* a key of state.config whose schema entry declares a type outside `kinds`, or none
DeclaresOutside(kinds) ==
    \E i \in DOMAIN CcConfig :
        LET opt == LookupOpt(CcSchema, CcConfig[i][1])
        IN ~IsNone(opt) /\ Val(opt).type \notin kinds
\* C16 as claimed: a key of state.config whose schema entry declares a type other
\* than string, integer, number and boolean, or no type, always makes run raise
\* InconsistentScenarioError.
C16_Original ==
    (CcEnded /\ DeclaresOutside({"string", "integer", "number", "boolean"}))
        => CcRaisedInconsistent
\* C16: unless the opt-out flag is set, a key of state.config whose schema entry
\* declares a type other than string, int, integer, number and boolean (such as
\* "attrs"), or no type, makes run raise InconsistentScenarioError.
C16_UnsupportedTypeFails ==
    (CcEnded /\ ~CcSkip /\ DeclaresOutside({"string", "int", "integer", "number", "boolean"}))
        => CcRaisedInconsistent
C16_Witness ==
    /\ CcRaisedInconsistent
    /\ LookupOpt(CcSchema, Replicas) = Some(Option("attrs"))
    /\ CcConfig # <<>>
    /\ CcResult("_check_config").raised = Some("TypeError")
    /\ Len(cc_errors) = 1

\* C17 as claimed: in a run that evaluates the checks, every key of state.config
\* that the schema does not declare makes run raise InconsistentScenarioError with a
\* diagnostic naming that key.
C17_UndeclaredKeyNamed ==
    (CcEnded /\ ~CcSkip) =>
        \A i \in DOMAIN CcConfig :
            IsNone(LookupOpt(CcSchema, CcConfig[i][1])) =>
                /\ CcRaisedInconsistent
                /\ InErrors(<<"config option not in config.yaml", CcConfig[i][1]>>)

\* the secret check is concerned: a secret event, or a secret in the state
SecretsInUse ==
    is_secret_event(Val(cc_in).event.name) \/ Val(cc_in).state.secrets # <<>>
VersionDiagnostic == <<"secrets not supported in juju version", Val(cc_in).juju_version>>
\* C18: the secret check reports a secret event in a state without secrets; when the
\* event is a secret event or the state holds a secret it reports the version exactly
\* when the major number is below 3; and what it reports makes run raise.
C18_SecretCheck ==
    CcRan("_check_secrets") =>
        LET r == CcResult("_check_secrets")
            reportsVersion == \E j \in DOMAIN r.errors : r.errors[j] = VersionDiagnostic
        IN /\ IsNone(r.raised)
           /\ (is_secret_event(Val(cc_in).event.name) /\ Val(cc_in).state.secrets = <<>>)
                => (\E j \in DOMAIN r.errors :
                        r.errors[j] = <<"secret event but the state has no secrets">>)
           /\ SecretsInUse => (reportsVersion = (VersionMajor(Val(cc_in).juju_version) < 3))
           /\ ~SecretsInUse => r.errors = <<>>
           /\ (CcEnded /\ r.errors # <<>>) => CcRaisedInconsistent
C18_Witness ==
    /\ cc_pc = "returned"
    /\ CcRan("_check_secrets")
    /\ Val(cc_in).event = EvSecretChanged
    /\ Val(cc_in).juju_version = <<"3">>

CcStateContainers == Val(cc_in).state.containers
CcMetaContainers == Val(cc_in).charm_spec.meta.containers
\* for a non-workload event the containers check reports nothing when every
\* container of the state is declared, whatever else the metadata declares
MetaOnlyContainersAccepted ==
    (CcRan("_check_containers") /\ ~is_workload_event(Val(cc_in).event.name)
        /\ CcStateContainers \subseteq CcMetaContainers)
        => CcResult("_check_containers") = Returned(<<>>)
\* C19 as claimed: for every event, a container of the state that the metadata does
\* not declare makes run raise InconsistentScenarioError; containers declared but
\* absent from the state are no error for a non-workload event.
C19_Original ==
    /\ (CcEnded /\ ~(CcStateContainers \subseteq CcMetaContainers)) => CcRaisedInconsistent
    /\ MetaOnlyContainersAccepted
\* C19: unless the opt-out flag is set, for every event a container of the state
\* that the metadata does not declare makes run raise InconsistentScenarioError;
\* containers declared but absent from the state are no error for a non-workload
\* event.
C19_UndeclaredContainerFails ==
    /\ (CcEnded /\ ~CcSkip /\ ~(CcStateContainers \subseteq CcMetaContainers))
            => CcRaisedInconsistent
    /\ MetaOnlyContainersAccepted
C19_Witness ==
    /\ CcRaisedInconsistent
    /\ Val(cc_in).event = EvStart
    /\ CcStateContainers = {Cache, Other}
    /\ CcMetaContainers = {Cache, MyDb}
    /\ Len(cc_errors) = 1

\* C20 as claimed: for every container name c declared in the metadata and present
\* in the state, the pebble-ready event of c carrying a container reference to c
\* passes the checks (the state holding no undeclared container).
C20_ContainerReadyPasses ==
    (CcEnded /\ ~CcSkip
        /\ ~IsNone(Val(cc_in).event.container)
        /\ LET c == Val(Val(cc_in).event.container).name
           IN /\ Val(cc_in).event.name = c \o PebbleReadySuffix
              /\ c \in CcStateContainers /\ c \in CcMetaContainers
        /\ CcStateContainers \subseteq CcMetaContainers)
        => cc_pc = "returned"

\* C21 as claimed: in a run that evaluates the checks, the pebble-ready event of a
\* container c that carries a reference to c, c being neither declared in the
\* metadata nor present in the state (which holds no undeclared container), makes
\* run raise InconsistentScenarioError with exactly two diagnostics: c missing from
\* the metadata and c missing from the state.
C21_UndeclaredContainerTwoDiagnostics ==
    (CcEnded /\ ~CcSkip
        /\ ~IsNone(Val(cc_in).event.container)
        /\ LET c == Val(Val(cc_in).event.container).name
           IN /\ Val(cc_in).event.name = c \o PebbleReadySuffix
              /\ c \notin CcStateContainers /\ c \notin CcMetaContainers
        /\ CcStateContainers \subseteq CcMetaContainers)
        => LET c == Val(Val(cc_in).event.container).name
           IN /\ CcRaisedInconsistent
              /\ cc_errors = <<<<"event container not declared in metadata", c>>,
                               <<"event container not present in state", c>>>>

\* run returned at its first statement: no check evaluated, no error collected
RunSkipped == cc_pc = "returned" /\ cc_ran = <<>> /\ cc_errors = <<>> /\ IsNone(cc_exc)
\* the flag is in the environment of the run, with a value that is not ""
CcFlagNonEmpty == CcSkip /\ Val(cc_in).environ["SCENARIO_SKIP_CONSISTENCY_CHECKS"] # <<>>
\* some check, evaluated on the input of the run, finds something
CcInconsistentInput == \E i \in DOMAIN Checks : DiagnosticsOf(Checks[i]) # <<>>

\* C22 as claimed: whenever SCENARIO_SKIP_CONSISTENCY_CHECKS is set in the
\* environment, run evaluates none of the checks and raises nothing.
C22_Original ==
    (cc_pc \notin {"unused", "start"} /\ CcSkip) => RunSkipped
\* C22: whenever SCENARIO_SKIP_CONSISTENCY_CHECKS is set to a non-empty value, run
\* evaluates none of the checks and raises nothing, whatever the state, the event and
\* the charm spec; it returns to exec, which goes on to its setup steps.
C22_FlagSkipsChecks ==
    (cc_pc \notin {"unused", "start"} /\ CcFlagNonEmpty) => RunSkipped
C22_Witness ==
    /\ RunSkipped
    /\ CcFlagNonEmpty
    /\ CcInconsistentInput
    /\ ~IsNone(CheckResult("_check_config", Val(cc_in)).raised)

\* the exec side of C22: with the flag set to a non-empty value when exec is called,
\* exec is past the check without InconsistentScenarioError and copies the state next
ExecProceedsWhenSkipping ==
    (pc \notin {"idle", "check"} /\ SkipFlagSet
        /\ Val(pre).os_environ["SCENARIO_SKIP_CONSISTENCY_CHECKS"] # <<>>)
        => /\ ~RaisedType("InconsistentScenarioError")
           /\ SubSeq(trace, 1, 1) = <<"check">>
           /\ (pc = "copy" \/ Did("copy"))

\* the deferred events of the input state whose payload marshal.dumps rejects
Unrepresentable ==
    {i \in DOMAIN Val(pre).input.deferred :
        ~marshal_dumps_ok(Val(pre).input.deferred[i].snapshot_data)}
\* C23: when a deferred event of the input state has a payload outside the simple
\* types, the priming step raises a ValueError naming the first such event and exec
\* ends there: no environment built or applied, the charm entry point not invoked,
\* the caller's State as it was and no State handed back.
C23_UnrepresentablePayloadAborts ==
    (pc # "idle" /\ Did("init_storage") /\ Unrepresentable # {}) =>
        LET first == CHOOSE i \in Unrepresentable : \A j \in Unrepresentable : i <= j
        IN /\ RaisedType("ValueError")
           /\ Val(outcome.error).detail = Val(pre).input.deferred[first]
           /\ trace = <<"check", "copy", "vroot", "init_storage">>
           /\ IsNone(env)
           /\ os_environ = Val(pre).os_environ
           /\ proc_environ = Val(pre).proc_environ
           /\ charm.invocations = 0
           /\ heap.input = Some(Val(pre).input)
           /\ IsNone(outcome.state)
C23_Witness ==
    /\ RaisedType("ValueError")
    /\ Val(pre).input.deferred = <<DeferredA2, DeferredB3>>
    /\ Val(outcome.error).detail = DeferredB3
    /\ UsesCustomRoot
    /\ Val(custom_root.store).notices # <<>>

\* the store exec has just drained, and the keys in it that match the event-notice
\* pattern, the stored-state pattern (and not the former), or neither
DrainedStore == Val(Root.store)
EventKeys == {k \in SnapshotKeys(DrainedStore) : event_regex_match(k)}
StoredKeys ==
    {k \in SnapshotKeys(DrainedStore) : ~event_regex_match(k) /\ ~IsNone(sst_regex_match(k))}
UnmatchedKeys == SnapshotKeys(DrainedStore) \ (EventKeys \cup StoredKeys)
\* C24: the drain step never raises; right after it the output deferred list holds
\* one entry per notice of each key matching the event pattern, the output
\* stored_state list one entry per key matching the stored-state pattern, whatever
\* the order the keys are listed in, and a key matching neither has no entry.
C24_UnmatchedKeySkipped ==
    /\ (pc # "idle" /\ Did("close_storage")) => (pc = "release" \/ ReturnedState)
    /\ pc = "release" =>
        LET out == Val(heap.output)
        IN /\ \A i \in DOMAIN out.deferred : out.deferred[i].handle_path \in EventKeys
           /\ \A k \in EventKeys :
                Cardinality({i \in DOMAIN out.deferred : out.deferred[i].handle_path = k})
                    = Len(notices(DrainedStore, k))
           /\ Len(out.stored_state) = Cardinality(StoredKeys)
           /\ \A k \in StoredKeys :
                \E i \in DOMAIN out.stored_state :
                    out.stored_state[i]
                        = StoredState(load_snapshot(DrainedStore, k), Val(sst_regex_match(k)))
           /\ \A k \in UnmatchedKeys :
                /\ \A i \in DOMAIN out.deferred : out.deferred[i].handle_path # k
                /\ \A i \in DOMAIN out.stored_state :
                        StoredStateHandlePath(out.stored_state[i]) # k
C24_Witness ==
    /\ pc = "release"
    /\ UnmatchedKeys = {JunkKey}
    /\ Val(heap.output).deferred # <<>>
    /\ Val(heap.output).stored_state = <<StoredCT>>

\* C25: from the call of exec on, through every step and after every outcome, a
\* caller-supplied charm_root exists and holds every file it held when exec was
\* called, the files that are not metadata documents with their content; and an exec
\* that was given no charm_root leaves the caller's directory as it was.
C25_CustomRootNeverDeleted ==
    pc # "idle" =>
        IF UsesCustomRoot
        THEN /\ custom_root.exists
             /\ \A f \in DOMAIN Val(pre).custom_root.files :
                    /\ f \in DOMAIN custom_root.files
                    /\ f \notin MetadataFiles => custom_root.files[f] = Val(pre).custom_root.files[f]
             /\ ~IsNone(Val(pre).custom_root.store) => ~IsNone(custom_root.store)
        ELSE custom_root = Val(pre).custom_root
C25_Witness ==
    /\ ReturnedState
    /\ UsesCustomRoot
    /\ ~call.charm_spec.is_autoloaded
    /\ Val(pre).custom_root.files = ("charm.py" :> UserDocument)
    /\ custom_root.files = MetadataDocuments(call.charm_spec) @@ ("charm.py" :> UserDocument)
    /\ ~IsNone(custom_root.store)

\* an auto-discovered charm spec and a caller-supplied root that held a metadata
\* file when exec was called
AutoloadedOnUsedRoot ==
    /\ call.charm_spec.is_autoloaded
    /\ UsesCustomRoot
    /\ metadata_files_present(Val(pre).custom_root)
\* C26: with an auto-discovered charm spec and a caller-supplied root that already
\* holds metadata files, virtual_charm_root raises nothing: once it has run, the
\* three documents in the root are the serialization of the spec, and exec goes on
\* to prime the store.
C26_AutoloadedRootOverwritten ==
    (pc # "idle" /\ Did("vroot") /\ AutoloadedOnUsedRoot) =>
        /\ ~RaisedType("DirtyVirtualCharmRootError")
        /\ \A f \in MetadataFiles :
            /\ f \in DOMAIN custom_root.files
            /\ custom_root.files[f] = MetadataDocuments(call.charm_spec)[f]
        /\ (pc = "init_storage" \/ Did("init_storage"))
C26_Witness ==
    /\ ReturnedState
    /\ AutoloadedOnUsedRoot
    /\ Val(pre).custom_root.files["metadata.yaml"] = UserDocument
    /\ custom_root.files["metadata.yaml"] = <<"yaml", call.charm_spec.meta>>

\* ---- the event environment
EnvEvent == Val(env_in).event
EnvHas(key) == key \in DOMAIN Val(env_out)
\* C27: the env dict holds JUJU_RELATION (the endpoint) and JUJU_RELATION_ID (the
\* id) exactly when the event carries a relation, JUJU_WORKLOAD_NAME (the name)
\* exactly when it carries a container, and JUJU_SECRET_ID and JUJU_SECRET_LABEL
\* exactly when it carries a secret, the label being "" for a secret without label.
C27_ReferenceKeys ==
    env_pc = "built" =>
        /\ EnvHas("JUJU_RELATION") = ~IsNone(EnvEvent.relation)
        /\ EnvHas("JUJU_RELATION_ID") = ~IsNone(EnvEvent.relation)
        /\ EnvHas("JUJU_WORKLOAD_NAME") = ~IsNone(EnvEvent.container)
        /\ EnvHas("JUJU_SECRET_ID") = ~IsNone(EnvEvent.secret)
        /\ EnvHas("JUJU_SECRET_LABEL") = ~IsNone(EnvEvent.secret)
        /\ ~IsNone(EnvEvent.relation) =>
            /\ Val(env_out)["JUJU_RELATION"] = Val(EnvEvent.relation).endpoint
            /\ Val(env_out)["JUJU_RELATION_ID"] = <<ToString(Val(EnvEvent.relation).relation_id)>>
        /\ ~IsNone(EnvEvent.container) =>
            Val(env_out)["JUJU_WORKLOAD_NAME"] = Val(EnvEvent.container).name
        /\ ~IsNone(EnvEvent.secret) =>
            /\ Val(env_out)["JUJU_SECRET_ID"] = Val(EnvEvent.secret).id
            /\ Val(env_out)["JUJU_SECRET_LABEL"] =
                    (IF Val(EnvEvent.secret).label = None THEN <<>>
                     ELSE Val(EnvEvent.secret).label[1])
C27_Witness ==
    /\ env_pc = "built"
    /\ EnvEvent = EvSecretChanged
    /\ Val(env_out)["JUJU_SECRET_LABEL"] = <<>>
    /\ ~EnvHas("JUJU_RELATION")
    /\ ~EnvHas("JUJU_WORKLOAD_NAME")

EnvMeta == Val(env_in).charm_spec.meta
EnvValue(key) == Val(env_out)[key]
\* the keys every env dict holds, apart from the unit name: the version given to the
\* Runtime, the dispatch marker and path, the model of the state, the action name
\* and the charm root as an absolute path
BaseKeysPresent ==
    /\ {"JUJU_VERSION", "JUJU_UNIT_NAME", "_", "JUJU_DISPATCH_PATH", "JUJU_MODEL_NAME",
        "JUJU_ACTION_NAME", "JUJU_MODEL_UUID", "JUJU_CHARM_DIR"} \subseteq DOMAIN Val(env_out)
    /\ EnvValue("JUJU_VERSION") = Val(env_in).juju_version
    /\ EnvValue("_") = <<".", "/", "d", "i", "s", "p", "a", "t", "c", "h">>
    /\ EnvValue("JUJU_DISPATCH_PATH") = <<"h", "o", "o", "k", "s", "/">> \o EnvEvent.name
    /\ EnvValue("JUJU_MODEL_NAME") = Val(env_in).state.model.name
    /\ EnvValue("JUJU_MODEL_UUID") = Val(env_in).state.model.uuid
    /\ EnvValue("JUJU_CHARM_DIR")[1] = "/"
    /\ EndsWith(EnvValue("JUJU_CHARM_DIR"), Val(env_in).charm_root)
    /\ Val(env_in).charm_root[1] = "/" => EnvValue("JUJU_CHARM_DIR") = Val(env_in).charm_root
\* the metadata has a name and the unit name is that name followed by /0
UnitNamedAfterMetadata ==
    /\ ~IsNone(EnvMeta.name)
    /\ EnvValue("JUJU_UNIT_NAME") = EnvMeta.name[1] \o <<"/", "0">>

\* C28 as claimed: every env dict built holds the eight base keys, the unit name
\* being the metadata name followed by /0.
C28_Original ==
    env_pc = "built" => (BaseKeysPresent /\ UnitNamedAfterMetadata)
\* C28: every env dict built holds the eight base keys, the unit name being the
\* metadata name followed by /0, or local/0 when the charm spec has no metadata; and
\* an env dict is built whenever the metadata is empty or has a name.
C28_BaseKeys ==
    /\ env_pc = "built" =>
        /\ BaseKeysPresent
        /\ IF EnvMeta = [name |-> None, containers |-> {}]
           THEN EnvValue("JUJU_UNIT_NAME") = <<"l", "o", "c", "a", "l", "/", "0">>
           ELSE UnitNamedAfterMetadata
    /\ (env_pc # "start" /\ (EnvMeta.containers = {} \/ ~IsNone(EnvMeta.name)))
            => env_pc = "built"
C28_Witness ==
    /\ env_pc = "built"
    /\ EnvMeta = [name |-> None, containers |-> {}]
    /\ EnvValue("JUJU_UNIT_NAME") = LocalUnit
    /\ Val(env_in).charm_root = RelativePath
    /\ EnvValue("JUJU_CHARM_DIR") = <<"/", "w", "/", "r">>

\* C29: JUJU_ACTION_NAME is, for an event whose name ends with _action, the name
\* without these seven characters and with "-" wherever it has "_", character by
\* character; for every other event it is the empty string.
C29_ActionName ==
    env_pc = "built" =>
        LET n == EnvEvent.name
            a == EnvValue("JUJU_ACTION_NAME")
            suffix == <<"_", "a", "c", "t", "i", "o", "n">>
        IN IF Len(n) >= 7 /\ [i \in 1..7 |-> n[Len(n) - 7 + i]] = suffix
           THEN /\ Len(a) = Len(n) - 7
                /\ \A i \in 1..Len(a) : a[i] = (IF n[i] = "_" THEN "-" ELSE n[i])
           ELSE a = <<>>
C29_Witness ==
    /\ env_pc = "built"
    /\ EnvEvent = EvDoItAction
    /\ EnvValue("JUJU_ACTION_NAME") = <<"d", "o", "-", "i", "t">>

\* the consistency check, the root acquisition and the priming of this exec succeed
SetupSucceeds ==
    /\ CheckerErrors = <<>>
    /\ ~DirtyRequest
    /\ Unrepresentable = {}
\* the metadata lets the unit name be derived: it is empty or has a name
UnitNameDerivable ==
    call.charm_spec.meta.containers = {} \/ ~IsNone(call.charm_spec.meta.name)
\* at no step has the entry point been invoked twice, and once it has raised exec is over
NoSecondInvocation ==
    /\ charm.invocations <= 1
    /\ ~IsNone(charm.raised) => (Done /\ charm.invocations = 1)

\* C30: an exec invokes the charm entry point once when the consistency
\* check, the root acquisition and the priming succeed, and never otherwise; it
\* never invokes it a second time.
C30_InvokedOnceAfterSetup ==
    /\ NoSecondInvocation
    /\ Done => ((charm.invocations = 1) = SetupSucceeds)
\* what does hold: the entry point is invoked once when, besides, the unit name can
\* be derived from the metadata, and never otherwise; and never a second time
InvokedOnceWhenEnvBuilt ==
    /\ NoSecondInvocation
    /\ Done => ((charm.invocations = 1) = (SetupSucceeds /\ UnitNameDerivable))

\* ---- trigger
TriggerArgs == Val(pre).trigger
\* C31 as claimed: whenever trigger was called without meta, the metadata of the
\* charm spec it runs with is the metadata.yaml of the charm, whatever was given for
\* actions and config.
C31_MetaFromFileWhenNotProvided ==
    (pc # "idle" /\ IsNone(TriggerArgs.meta)) => call.charm_spec.meta = FileMeta

\* the deferred events the notices of key k stand for
NoticedEvents(k) ==
    LET ns == notices(DrainedStore, k)
    IN [i \in DOMAIN ns |-> DeferredEvent(ns[i][1], ns[i][2], ns[i][3])]
\* a State without its deferred and stored_state lists
OtherFields(state) == [state EXCEPT !.deferred = <<>>, !.stored_state = <<>>]
\* right after the drain, the two lists of the output are the reconstruction of the
\* store and hold nothing for an input entry whose key the store no longer has
ListsReplaced ==
    pc = "release" =>
        LET out == Val(heap.output)
            in == Val(pre).input
        IN /\ \A i \in DOMAIN out.deferred : out.deferred[i].handle_path \in EventKeys
           /\ \A k \in EventKeys :
                BagOfSeq(SelectSeq(out.deferred, LAMBDA d : d.handle_path = k))
                    = BagOfSeq(NoticedEvents(k))
           /\ Len(out.stored_state) = Cardinality(StoredKeys)
           /\ \A k \in StoredKeys :
                \E i \in DOMAIN out.stored_state :
                    out.stored_state[i]
                        = StoredState(load_snapshot(DrainedStore, k), Val(sst_regex_match(k)))
           /\ \A i \in DOMAIN in.deferred :
                in.deferred[i].handle_path \notin SnapshotKeys(DrainedStore)
                    => \A j \in DOMAIN out.deferred :
                            out.deferred[j].handle_path # in.deferred[i].handle_path
           /\ \A i \in DOMAIN in.stored_state :
                StoredStateHandlePath(in.stored_state[i]) \notin SnapshotKeys(DrainedStore)
                    => \A j \in DOMAIN out.stored_state :
                            StoredStateHandlePath(out.stored_state[j])
                                # StoredStateHandlePath(in.stored_state[i])
\* the drain step leaves every other field of the clone as the charm left it, and the
\* state returned is the drained clone
DrainKeepsOtherFields ==
    /\ pc = "close_storage" => OtherFields(Val(heap'.output)) = OtherFields(Val(heap.output))
    /\ pc = "release" => (outcome'.state = heap.output /\ heap' = heap)
\* C32: on a successful exec the deferred and stored_state lists of the output are
\* the lists reconstructed from the store after the charm ran, replacing the input
\* lists, so that an input entry the charm removed from the store is absent; every
\* other field of the output is as the charm left it on the clone.
C32_DrainedListsReplace ==
    []ListsReplaced /\ [][DrainKeepsOtherFields]_vars
C32_Witness ==
    /\ ReturnedState
    /\ Val(pre).input.deferred = <<DeferredA2>>
    /\ Val(pre).input.stored_state = <<StoredCT>>
    /\ Val(outcome.state).deferred = <<>>
    /\ Val(outcome.state).stored_state = <<StoredCT>>

\* the document written for an optional field of the spec
DocumentOf(field) == IF IsNone(field) THEN <<"yaml", <<>>>> ELSE <<"yaml", Val(field)>>
C34_WitnessGiven ==
    /\ pc = "init_storage"
    /\ ~IsNone(call.charm_spec.actions)
    /\ Root.files["actions.yaml"] = <<"yaml", <<"do-it">>>>
    /\ Val(pre).custom_root.files = ("metadata.yaml" :> UserDocument)

\* the steps of exec, in the order of its statements
StepOrder ==
    <<"check", "copy", "vroot", "init_storage", "env", "main", "cleanup_env",
      "close_storage", "release">>
\* the store holds what _initialize_storage saves for the input state
StorePrimed(store, state) ==
    /\ \A i \in DOMAIN state.deferred :
        LET d == state.deferred[i]
        IN /\ HasSnapshot(store, d.handle_path)
           /\ <<d.handle_path, d.owner, d.observer>> \in Range(store.notices)
    /\ \A i \in DOMAIN state.stored_state :
        HasSnapshot(store, StoredStateHandlePath(state.stored_state[i]))
\* what is in place when mocked_main is about to be called
ReadyForCharm ==
    /\ Root.exists
    /\ \A f \in MetadataFiles :
        f \in DOMAIN Root.files /\ Root.files[f] = MetadataDocuments(call.charm_spec)[f]
    /\ ~IsNone(Root.store)
    /\ StorePrimed(Val(Root.store), Val(pre).input)
    /\ ~Root.store_open
    /\ ~IsNone(env)
    /\ \A k \in DOMAIN Val(env) :
        /\ k \in DOMAIN os_environ /\ os_environ[k] = Val(env)[k]
        /\ k \in DOMAIN proc_environ /\ proc_environ[k] = Val(env)[k]
\* C33: the steps of every exec are taken in the order check, (copy,) root with the
\* documents, store priming, environment, charm, environment unset, store drain, root
\* release; when the charm is invoked the documents are written, the store is primed
\* and closed and every key of the built environment is set; the store is drained
\* while the root still exists.
C33_StepOrder ==
    /\ pc # "idle" =>
        /\ Len(trace) <= Len(StepOrder)
        /\ trace = SubSeq(StepOrder, 1, Len(trace))
        /\ pc \notin {"done", "idle"} => pc = StepOrder[Len(trace) + 1]
    /\ pc = "main" => ReadyForCharm
    /\ (pc # "idle" /\ charm.invocations > 0) => Did("env") /\ Did("init_storage") /\ Did("vroot")
    /\ pc \in {"close_storage", "release"} => Root.exists /\ ~IsNone(Root.store)
    /\ ReturnedState => trace = StepOrder
C33_Witness ==
    /\ ReturnedState
    /\ trace = StepOrder
    /\ Val(pre).input.deferred # <<>>
    /\ charm.invocations = 1
    /\ IsNone(call.charm_root)
    /\ ~tmp_root.exists

\* the store _initialize_storage makes of this dispatch's input state alone
FreshlyPrimed == _initialize_storage(Val(pre).input, EmptyStore).store
\* C35: when the charm entry point is invoked the store holds exactly what was primed
\* from this dispatch's input state, one notice and one snapshot per deferred event
\* and one snapshot per stored state, and nothing of an earlier dispatch, also when
\* the dispatches share a caller-supplied charm_root.
C35_StoreHoldsOnlyThisDispatch ==
    pc = "main" =>
        /\ BagOfSeq(Val(Root.store).snapshots) = BagOfSeq(FreshlyPrimed.snapshots)
        /\ BagOfSeq(Val(Root.store).notices) = BagOfSeq(FreshlyPrimed.notices)
\* the same of the first dispatch of the process only
FirstDispatchStoreFresh ==
    (pc = "main" /\ execs = 1) =>
        /\ BagOfSeq(Val(Root.store).snapshots) = BagOfSeq(FreshlyPrimed.snapshots)
        /\ BagOfSeq(Val(Root.store).notices) = BagOfSeq(FreshlyPrimed.notices)

\* the keys of the env exec built for this dispatch, none if it built no env
BuiltKeys == IF IsNone(env) THEN {} ELSE DOMAIN Val(env)
\* a variable has the same presence and value in two environments
SameVariable(k, before, after) ==
    /\ (k \in DOMAIN before) = (k \in DOMAIN after)
    /\ k \in DOMAIN before => after[k] = before[k]
\* C36: exec changes no process environment variable outside the key set it built
\* for the dispatch: at every step and on every exit path, a variable whose key is
\* not in that set is present or absent, and valued, as when exec was called.
C36_OtherVariablesUntouched ==
    pc # "idle" =>
        \A k \in (DOMAIN os_environ \cup DOMAIN proc_environ
                  \cup DOMAIN Val(pre).os_environ \cup DOMAIN Val(pre).proc_environ)
                 \ BuiltKeys :
            /\ SameVariable(k, Val(pre).os_environ, os_environ)
            /\ SameVariable(k, Val(pre).proc_environ, proc_environ)
C36_Witness ==
    /\ ReturnedState
    /\ ~IsNone(env)
    /\ "SCENARIO_SKIP_CONSISTENCY_CHECKS" \in DOMAIN Val(pre).proc_environ
    /\ "SCENARIO_SKIP_CONSISTENCY_CHECKS" \notin BuiltKeys
    /\ proc_environ = Val(pre).proc_environ
    /\ os_environ # Val(pre).os_environ

\* the event of the run is a relation-lifecycle event that carries no relation
CcRelationEventWithoutRelation ==
    is_relation_event(Val(cc_in).event.name) /\ IsNone(Val(cc_in).event.relation)
\* C37: for a relation-lifecycle event without a relation, the error run raises holds
\* the event check's own diagnostic that the relation instance is missing.
C37_MissingRelationDiagnosed ==
    (CcEnded /\ CcRan("_check_event") /\ CcRelationEventWithoutRelation)
        => /\ CcRaisedInconsistent
           /\ InErrors(<<"relation event without relation instance">>)
\* what the run does report for such an event: the one diagnostic of the except clause
MissingRelationReportedAsUnexpected ==
    (CcEnded /\ CcRan("_check_event") /\ CcRelationEventWithoutRelation)
        => /\ CcRaisedInconsistent
           /\ InErrors(<<"unexpected error processing check", "_check_event", "AttributeError">>)

\* C38: exec never modifies the caller's charm type or the events class it shares
\* with its base classes: after any number of sessions the events defined on the
\* original type's `on` are those it had at first, each session having been handed a
\* new subclass with an events class of its own.
C38_OriginalTypeUntouched ==
    on_classes # <<>> =>
        /\ on_classes[1] = CharmEvents
        /\ \A s \in DOMAIN sess :
            LET c == sess[s].charm_type.on_class
            IN /\ c # CharmType.on_class
               /\ on_classes[c].parent = CharmType.on_class
               /\ sess[s].charm_type.name = CharmType.name
               /\ \A t \in DOMAIN sess : t # s => sess[t].charm_type.on_class # c
C38_Witness ==
    /\ Len(sess) = 2
    /\ on_classes[1] = CharmEvents
    /\ \A s \in DOMAIN sess :
        /\ IsNone(sess[s].failed)
        /\ <<Db, "relation_changed">> \in on_classes[sess[s].charm_type.on_class].attrs
        /\ Len(sess[s].emitted) >= 1

\* the number of emissions, and the stored master, right after the i-th event
EmitsAfter(i) ==
    IF i < Len(pg_history) THEN pg_history[i + 1].emits_before ELSE Len(pg_emitted)
StoredAfter(i) == IF i < Len(pg_history) THEN pg_history[i + 1].before ELSE pg_stored
\* C39: the client emits master_changed on a relation-changed event if and only if
\* the relation is ready and the master received differs from the stored one; after
\* an emission the stored master is the received value; relation-changed events that
\* all carry the same master emit at most once between them; and a relation that is
\* not ready leaves the stored master as it was.
C39_MasterChangedEmission ==
    /\ \A i \in DOMAIN pg_history :
        LET h == pg_history[i]
            emitted == EmitsAfter(i) - h.emits_before
        IN h.kind = "changed" =>
            /\ emitted \in {0, 1}
            /\ (emitted = 1) = (h.ready /\ h.master # h.before)
            /\ emitted = 1 => (StoredAfter(i) = h.master /\ pg_emitted[EmitsAfter(i)] = h.master)
            /\ ~h.ready => StoredAfter(i) = h.before
    /\ \A i, j \in DOMAIN pg_history :
        (/\ i <= j
         /\ \A k \in i..j : pg_history[k].kind = "changed" => pg_history[k].master = pg_history[i].master)
            => EmitsAfter(j) - pg_history[i].emits_before <= 1
C39_Witness ==
    /\ Len(pg_history) = 3
    /\ \A i \in DOMAIN pg_history :
        pg_history[i].kind = "changed" /\ pg_history[i].master = Some(<<"m", "1">>)
    /\ ~pg_history[1].ready
    /\ pg_history[2].ready
    /\ pg_history[3].ready
    /\ pg_emitted = <<Some(<<"m", "1">>)>>
    /\ pg_stored = Some(<<"m", "1">>)

====
